---- MODULE Spec2Model ----
\* A state-machine model of the GT7 race engineer core:
\*   - TelemetrySession (src/core/telemetry_session.py): lap segmentation,
\*     session reset, reference-lap selection and the lap-finalized callback;
\*   - GT7Communication.run (src/telemetry/gt7communication.py): the streaming
\*     loop's packet de-duplication and publication.
\*
\* Conventions.
\*   Optional[T] is a set with at most one element: None is {}, a value v is {v}.
\*   Python list indices are kept 0-based (reference_idx = {0} is the first
\*   lap); a TLA+ sequence s is read at s[i + 1].
\*   Coordinates are whole metres.  A float comparison against a fractional
\*   threshold is written with both sides scaled to integers, e.g.
\*   dx*dx + dz*dz < 0.01 is 100 * (dx*dx + dz*dz) < 1.
\*   Time is counted in tenths of a second.  time.time() only enters the code
\*   as the difference now - _last_moving_t, so the clock origin is moved to
\*   the time of the latest snapshot: last_moving_t holds a value <= 0, the
\*   (negated) age of the last movement, saturated below at -(FreezeAfter + 1).
EXTENDS Integers, Sequences, FiniteSets, TLC

\* ---------------------------------------------------------------- bounds

\* Largest lap number a snapshot carries.
MaxLapNum == 2
\* Largest number of completed laps kept; a finalization beyond it is not explored.
MaxLaps == 2
\* Largest current-lap buffer explored.
MaxBuf == 10
\* Largest number of session resets explored.
MaxResets == 1

\* ------------------------------------------------------ program constants

\* len(self._current_lap_samples) < 10, len(points) < 10
MinLapPoints == 10
\* tot_s + 2 < self._last_time_on_track_s
ResetSlack == 2
\* (now - self._last_moving_t) > 0.7, in tenths of a second
FreezeAfter == 7
\* _make_start_gate: len(points) < 6, points[5]
GateLookahead == 5
\* _make_start_gate: half = 20.0
GateHalf == 20

\* ------------------------------------------------------------- helpers

None == {}

Some(v) == {v}

Val(o) == CHOOSE v \in o : TRUE

Abs(n) == IF n < 0 THEN -n ELSE n

\* math.hypot on the integer offsets the model produces (3-4-5 geometry):
\* the exact root when there is one, else the integer part.
Hypot(dx, dz) ==
    CHOOSE r \in 0..(Abs(dx) + Abs(dz)) :
        /\ r * r <= dx * dx + dz * dz
        /\ (r + 1) * (r + 1) > dx * dx + dz * dz

\* _dist2d(a, b)
Dist2d(a, b) == Hypot(a[1] - b[1], a[2] - b[2])

\* Variant of Cumdist: the loop starts one point late, range(2, len(points)).
RECURSIVE CumdistLateLoop(_, _, _)
CumdistLateLoop(points, i, out) ==
    IF i > Len(points) THEN out
    ELSE CumdistLateLoop(points, i + 1,
             Append(out, out[Len(out)] + Hypot(points[i - 1][1] - points[i][1],
                                              points[i - 1][2] - points[i][2])))

CumdistLate(points) ==
    IF points = <<>> THEN <<>> ELSE CumdistLateLoop(points, 3, <<0>>)

\* _cumdist(points): [] for no points, else a running sum starting at 0.
RECURSIVE CumdistLoop(_, _, _)
CumdistLoop(points, i, out) ==
    IF i > Len(points) THEN out
    ELSE CumdistLoop(points, i + 1,
             Append(out, out[Len(out)] + Dist2d(points[i - 1], points[i])))

Cumdist(points) ==
    IF points = <<>> THEN <<>> ELSE CumdistLoop(points, 2, <<0>>)

\* abs(x) > 1e-6 or abs(z) > 1e-6
CoordsOk(x, z) == 1000000 * Abs(x) > 1 \/ 1000000 * Abs(z) > 1

\* _make_start_gate(points): None for fewer than 6 points or a zero forward
\* vector, else the two end points of the perpendicular through points[0].
MakeStartGate(points) ==
    IF Len(points) < GateLookahead + 1 THEN None
    ELSE LET p0 == points[1]
             vx == points[GateLookahead + 1][1] - p0[1]
             vz == points[GateLookahead + 1][2] - p0[2]
             norm == Hypot(vx, vz)
         IN IF norm = 0 THEN None
            ELSE LET nxh == ((0 - vz) * GateHalf) \div norm
                     nzh == (vx * GateHalf) \div norm
                 IN Some(<< <<p0[1] - nxh, p0[2] - nzh>>,
                            <<p0[1] + nxh, p0[2] + nzh>> >>)

\* [(s.x, s.z) for s in samples if coords valid]
RECURSIVE ValidPoints(_)
ValidPoints(samples) ==
    IF samples = <<>> THEN <<>>
    ELSE LET s == Head(samples)
             rest == ValidPoints(Tail(samples))
         IN IF CoordsOk(s.x, s.z) THEN <<(<<s.x, s.z>>)>> \o rest ELSE rest

\* ------------------------------------------------------------- state

VARIABLES
    completed_laps,        \* self._completed_laps: sequence of LapData
    current_lap_samples,   \* self._current_lap_samples: sequence of samples
    last_lap_num,          \* self._last_lap_num: Optional[int]
    last_time_on_track_s,  \* self._last_time_on_track_s: Optional[int]
    session_id,            \* self._session_id
    reference_idx,         \* self._reference_idx: Optional[int], 0-based
    reference_locked,      \* self._reference_locked
    last_pos,              \* self._last_pos: Optional[(x, z)]
    last_moving_t,         \* self._last_moving_t: Optional[time], see header
    on_lap_finalized,      \* whether the on_lap_finalized hook is set
    cb_calls,              \* the LapData passed to the hook by the latest call
    hook_raises,           \* whether the hook ends by raising an Exception
    cb_seen,               \* what the hook found in the session it was passed
                           \* by the latest call: the number of completed
                           \* laps and the reference index
    raised                 \* whether the latest call ended with an exception

session_vars ==
    <<completed_laps, current_lap_samples, last_lap_num, last_time_on_track_s,
      session_id, reference_idx, reference_locked, last_pos, last_moving_t,
      on_lap_finalized, cb_calls, hook_raises, cb_seen, raised>>

\* The session object as one value, so that the helper methods can be
\* composed in the order the code calls them.
Sess ==
    [completed_laps |-> completed_laps,
     current_lap_samples |-> current_lap_samples,
     last_lap_num |-> last_lap_num,
     last_time_on_track_s |-> last_time_on_track_s,
     session_id |-> session_id,
     reference_idx |-> reference_idx,
     reference_locked |-> reference_locked,
     last_pos |-> last_pos,
     last_moving_t |-> last_moving_t,
     on_lap_finalized |-> on_lap_finalized,
     cb_calls |-> cb_calls,
     hook_raises |-> hook_raises,
     cb_seen |-> cb_seen,
     raised |-> raised]

SetSess(s) ==
    /\ completed_laps' = s.completed_laps
    /\ current_lap_samples' = s.current_lap_samples
    /\ last_lap_num' = s.last_lap_num
    /\ last_time_on_track_s' = s.last_time_on_track_s
    /\ session_id' = s.session_id
    /\ reference_idx' = s.reference_idx
    /\ reference_locked' = s.reference_locked
    /\ last_pos' = s.last_pos
    /\ last_moving_t' = s.last_moving_t
    /\ on_lap_finalized' = s.on_lap_finalized
    /\ cb_calls' = s.cb_calls
    /\ hook_raises' = s.hook_raises
    /\ cb_seen' = s.cb_seen
    /\ raised' = s.raised

\* TelemetrySession.__init__, and the hook attached afterwards
SessFields ==
    /\ completed_laps = <<>>
    /\ current_lap_samples = <<>>
    /\ last_lap_num = None
    /\ last_time_on_track_s = None
    /\ session_id = 0
    /\ reference_idx = None
    /\ reference_locked = FALSE
    /\ last_pos = None
    /\ last_moving_t = None
    /\ on_lap_finalized \in BOOLEAN
    /\ cb_calls = <<>>
    /\ cb_seen = None
    /\ raised = FALSE

\* A session whose hook, if set, returns normally.
SessInit == SessFields /\ hook_raises = FALSE

\* ------------------------------------------------- reference selection

\* The best-time scan shared by set_reference_best and _ensure_reference:
\* the first lap with the smallest positive lap_time_ms, or None.
RECURSIVE BestTimeLoop(_, _, _, _)
BestTimeLoop(laps, i, best_i, best_time) ==
    IF i >= Len(laps) THEN best_i
    ELSE LET t == laps[i + 1].lap_time_ms
         IN IF t /= 0 /\ t > 0 /\ (best_time = None \/ t < Val(best_time))
            THEN BestTimeLoop(laps, i + 1, Some(i), Some(t))
            ELSE BestTimeLoop(laps, i + 1, best_i, best_time)

BestTimeIdx(laps) == BestTimeLoop(laps, 0, None, None)

\* key of the max() in _ensure_reference: cum_dist_m[-1], or 0.0 when empty
TotalDist(lap) ==
    IF lap.cum_dist_m = <<>> THEN 0 ELSE lap.cum_dist_m[Len(lap.cum_dist_m)]

\* max(range(len(laps)), key=...): the first index with the largest key
RECURSIVE MaxDistLoop(_, _, _)
MaxDistLoop(laps, i, best_i) ==
    IF i >= Len(laps) THEN best_i
    ELSE IF TotalDist(laps[i + 1]) > TotalDist(laps[best_i + 1])
         THEN MaxDistLoop(laps, i + 1, i)
         ELSE MaxDistLoop(laps, i + 1, best_i)

MaxDistIdx(laps) == MaxDistLoop(laps, 1, 0)

\* Variant of EnsureReference: the force argument is ignored.
EnsureReferenceUnforced(s, force) ==
    IF s.reference_idx /= None THEN s
    ELSE IF s.completed_laps = <<>> THEN [s EXCEPT !.reference_idx = None]
    ELSE LET best_i == BestTimeIdx(s.completed_laps)
         IN IF best_i /= None
            THEN [s EXCEPT !.reference_idx = best_i]
            ELSE [s EXCEPT !.reference_idx = Some(MaxDistIdx(s.completed_laps))]

\* Variant of EnsureReference: the lock is not consulted.
EnsureReferenceIgnoreLock(s, force) ==
    IF s.reference_idx /= None /\ ~force THEN s
    ELSE IF s.completed_laps = <<>> THEN [s EXCEPT !.reference_idx = None]
    ELSE LET best_i == BestTimeIdx(s.completed_laps)
         IN IF best_i /= None
            THEN [s EXCEPT !.reference_idx = best_i]
            ELSE [s EXCEPT !.reference_idx = Some(MaxDistIdx(s.completed_laps))]

\* Variant of EnsureReference: a set lock returns before any selection, even
\* when nothing is selected.
EnsureReferenceLockFirst(s, force) ==
    IF s.reference_idx /= None /\ ~force THEN s
    ELSE IF s.completed_laps = <<>> THEN [s EXCEPT !.reference_idx = None]
    ELSE IF s.reference_locked THEN s
    ELSE LET best_i == BestTimeIdx(s.completed_laps)
         IN IF best_i /= None
            THEN [s EXCEPT !.reference_idx = best_i]
            ELSE [s EXCEPT !.reference_idx = Some(MaxDistIdx(s.completed_laps))]

\* TelemetrySession._ensure_reference(force)
EnsureReference(s, force) ==
    IF s.reference_idx /= None /\ ~force THEN s
    ELSE IF s.completed_laps = <<>> THEN [s EXCEPT !.reference_idx = None]
    ELSE IF s.reference_locked /\ s.reference_idx /= None THEN s
    ELSE LET best_i == BestTimeIdx(s.completed_laps)
         IN IF best_i /= None
            THEN [s EXCEPT !.reference_idx = best_i]
            ELSE [s EXCEPT !.reference_idx = Some(MaxDistIdx(s.completed_laps))]

\* TelemetrySession.reference_lap(): the session after the call and the
\* value returned (None or a LapData).
ReferenceLap(s) ==
    LET s1 == EnsureReference(s, FALSE)
    IN [s |-> s1,
        ret |-> IF s1.reference_idx = None THEN None
                ELSE IF 0 <= Val(s1.reference_idx)
                        /\ Val(s1.reference_idx) < Len(s1.completed_laps)
                     THEN Some(s1.completed_laps[Val(s1.reference_idx) + 1])
                     ELSE None]

\* TelemetrySession.lock_reference(locked)
LockReference(s, locked) == [s EXCEPT !.reference_locked = locked]

\* TelemetrySession.set_reference_by_lap_num(lap_num): the session after the
\* call and the boolean returned.
RECURSIVE SetByLapNumLoop(_, _, _)
SetByLapNumLoop(s, lap_num, i) ==
    IF i >= Len(s.completed_laps) THEN [s |-> s, ret |-> FALSE]
    ELSE IF s.completed_laps[i + 1].lap_num = lap_num
         THEN [s |-> [s EXCEPT !.reference_idx = Some(i)], ret |-> TRUE]
         ELSE SetByLapNumLoop(s, lap_num, i + 1)

\* Variant of SetReferenceByLapNum: a locked reference refuses the selection.
SetReferenceByLapNumUnlessLocked(s, lap_num) ==
    IF s.reference_locked THEN [s |-> s, ret |-> FALSE]
    ELSE SetByLapNumLoop(s, lap_num, 0)

SetReferenceByLapNum(s, lap_num) == SetByLapNumLoop(s, lap_num, 0)

\* TelemetrySession.set_reference_best(): the session after the call and the
\* boolean returned.
SetReferenceBest(s) ==
    LET best_i == BestTimeIdx(s.completed_laps)
    IN IF best_i /= None
       THEN [s |-> [s EXCEPT !.reference_idx = best_i], ret |-> TRUE]
       ELSE [s |-> s, ret |-> FALSE]

\* ------------------------------------------------------ snapshot ingest

\* Variant of ResetSession: the reference index survives the reset.
ResetSessionKeepReference(s) ==
    [s EXCEPT !.session_id = @ + 1,
              !.completed_laps = <<>>,
              !.current_lap_samples = <<>>,
              !.last_lap_num = None,
              !.reference_locked = FALSE,
              !.last_pos = None,
              !.last_moving_t = None]

\* Variant of ResetSession: the buffer and the tracked lap number survive
\* the reset.
ResetSessionKeepBuffer(s) ==
    [s EXCEPT !.session_id = @ + 1,
              !.completed_laps = <<>>,
              !.reference_idx = None,
              !.reference_locked = FALSE,
              !.last_pos = None,
              !.last_moving_t = None]

\* TelemetrySession._reset_session
ResetSession(s) ==
    [s EXCEPT !.session_id = @ + 1,
              !.completed_laps = <<>>,
              !.current_lap_samples = <<>>,
              !.last_lap_num = None,
              !.reference_idx = None,
              !.reference_locked = FALSE,
              !.last_pos = None,
              !.last_moving_t = None]

\* Variant of MakeLap: the lap is numbered after the snapshot that ended it.
MakeLapNumberedBySnapshot(s, snap, points) ==
    [lap_num |-> snap.lap,
     samples |-> s.current_lap_samples,
     points_xz |-> points,
     cum_dist_m |-> Cumdist(points),
     lap_time_ms |-> snap.last_lap_ms,
     start_gate |-> MakeStartGate(points)]

\* The LapData built by _finalize_current_lap from the buffered samples and
\* the snapshot that changed the lap number.
MakeLap(s, snap, points) ==
    [lap_num |-> s.current_lap_samples[1].lap,
     samples |-> s.current_lap_samples,
     points_xz |-> points,
     cum_dist_m |-> Cumdist(points),
     lap_time_ms |-> snap.last_lap_ms,
     start_gate |-> MakeStartGate(points)]

\* Variant of NotifyLapFinalized: the hook is called twice.
NotifyLapFinalizedTwice(s, lap) ==
    IF s.on_lap_finalized
    THEN [s EXCEPT !.cb_calls = Append(Append(@, lap), lap)] ELSE s

\* What cb(lap, self) finds in the session at the time of the call.
HookView(s) ==
    Some([completed |-> Len(s.completed_laps), reference_idx |-> s.reference_idx])

\* Variant of NotifyLapFinalized: the hook is called outside try/except, so
\* its exception leaves _finalize_current_lap.
NotifyLapFinalizedUncaught(s, lap) ==
    IF s.on_lap_finalized
    THEN [s EXCEPT !.cb_calls = Append(@, lap),
                   !.cb_seen = HookView(s),
                   !.raised = s.hook_raises]
    ELSE s

\* The tail of _finalize_current_lap: cb(lap, self) when the hook is set,
\* inside try/except Exception: pass, so that an exception of the hook ends
\* there.
NotifyLapFinalized(s, lap) ==
    IF s.on_lap_finalized
    THEN [s EXCEPT !.cb_calls = Append(@, lap),
                   !.cb_seen = HookView(s),
                   !.raised = FALSE]
    ELSE s

\* Variant of FinalizeCurrentLap: appending a lap releases the lock.
FinalizeCurrentLapUnlocking(s, snap) ==
    IF Len(s.current_lap_samples) < MinLapPoints THEN s
    ELSE LET points == ValidPoints(s.current_lap_samples)
         IN IF Len(points) < MinLapPoints THEN s
            ELSE LET lap == MakeLap(s, snap, points)
                     s1 == [s EXCEPT !.completed_laps = Append(@, lap),
                                     !.reference_locked = FALSE]
                     s2 == EnsureReference(s1, TRUE)
                 IN NotifyLapFinalized(s2, lap)

\* TelemetrySession._finalize_current_lap(on_lap_change_snapshot)
FinalizeCurrentLap(s, snap) ==
    IF Len(s.current_lap_samples) < MinLapPoints THEN s
    ELSE LET points == ValidPoints(s.current_lap_samples)
         IN IF Len(points) < MinLapPoints THEN s
            ELSE LET lap == MakeLap(s, snap, points)
                     s1 == [s EXCEPT !.completed_laps = Append(@, lap)]
                     s2 == EnsureReference(s1, TRUE)
                 IN NotifyLapFinalized(s2, lap)

\* t = time.time(): dt tenths of a second have passed since the previous
\* snapshot; the clock origin moves to now (see header).
AdvanceClock(s, dt) ==
    IF s.last_moving_t = None THEN s
    ELSE LET aged == Val(s.last_moving_t) - dt
         IN [s EXCEPT !.last_moving_t =
                 Some(IF aged < 0 - (FreezeAfter + 1)
                      THEN 0 - (FreezeAfter + 1) ELSE aged)]

\* Variant of EffectivePaused: the sample is paused from 0.7 s on.
EffectivePausedAtLimit(s, snap) ==
    LET s1 == IF s.last_moving_t = None
              THEN [s EXCEPT !.last_moving_t = Some(0)] ELSE s
        pos_stable ==
            IF s1.last_pos = None THEN FALSE
            ELSE LET dx == snap.x - Val(s1.last_pos)[1]
                     dz == snap.z - Val(s1.last_pos)[2]
                 IN 100 * (dx * dx + dz * dz) < 1
        s2 == [s1 EXCEPT !.last_pos = Some(<<snap.x, snap.z>>)]
        controls_idle == 2 * snap.throttle < 1 /\ 2 * snap.brake < 1
        speed_idle == snap.speed_kmh < 1
        s3 == IF ~(pos_stable /\ controls_idle /\ speed_idle)
              THEN [s2 EXCEPT !.last_moving_t = Some(0)] ELSE s2
        heuristic_paused == (0 - Val(s3.last_moving_t)) >= FreezeAfter
    IN [s |-> s3, ret |-> snap.paused \/ heuristic_paused]

\* TelemetrySession._effective_paused(...), with now = 0: the session after
\* the call and the boolean returned.
EffectivePaused(s, snap) ==
    LET s1 == IF s.last_moving_t = None
              THEN [s EXCEPT !.last_moving_t = Some(0)] ELSE s
        pos_stable ==
            IF s1.last_pos = None THEN FALSE
            ELSE LET dx == snap.x - Val(s1.last_pos)[1]
                     dz == snap.z - Val(s1.last_pos)[2]
                 IN 100 * (dx * dx + dz * dz) < 1
        s2 == [s1 EXCEPT !.last_pos = Some(<<snap.x, snap.z>>)]
        controls_idle == 2 * snap.throttle < 1 /\ 2 * snap.brake < 1
        speed_idle == snap.speed_kmh < 1
        s3 == IF ~(pos_stable /\ controls_idle /\ speed_idle)
              THEN [s2 EXCEPT !.last_moving_t = Some(0)] ELSE s2
        heuristic_paused == (0 - Val(s3.last_moving_t)) > FreezeAfter
    IN [s |-> s3, ret |-> snap.paused \/ heuristic_paused]

\* The fields of TelemetrySample the session logic reads.
Sample(snap) ==
    [lap |-> snap.lap, x |-> snap.x, z |-> snap.z, paused |-> snap.paused]

\* Variant of TimeRegressed: any backward step resets, without the 2 s slack.
TimeRegressedNoSlack(s, tot_s) ==
    /\ s.last_time_on_track_s /= None
    /\ tot_s < Val(s.last_time_on_track_s)

\* The session-reset test of update_from_snapshot:
\* last_time_on_track_s is not None and tot_s + 2 < last_time_on_track_s
TimeRegressed(s, tot_s) ==
    /\ s.last_time_on_track_s /= None
    /\ tot_s + ResetSlack < Val(s.last_time_on_track_s)

\* Variant of CollectOk: the coordinates are not consulted.
CollectOkAnywhere(effective_paused, coords_ok, snap) ==
    (~effective_paused) /\ (snap.in_race => ~snap.paused)

\* collect_ok of update_from_snapshot
CollectOk(effective_paused, coords_ok, snap) ==
    ((~effective_paused) /\ coords_ok) /\ (snap.in_race => ~snap.paused)

\* Variant of UpdateFromSnapshot: the sample is admitted to the buffer before
\* the change of lap number is handled.
UpdateFromSnapshotAdmitFirst(s, snap) ==
    LET tot_s == snap.time_on_track_s
        s1 == IF tot_s /= None
              THEN [(IF TimeRegressed(s, Val(tot_s)) THEN ResetSession(s) ELSE s)
                    EXCEPT !.last_time_on_track_s = tot_s]
              ELSE s
        s2 == AdvanceClock(s1, snap.dt)
        s3 == IF s2.last_lap_num = None
              THEN [s2 EXCEPT !.last_lap_num = Some(snap.lap)] ELSE s2
        coords_ok == CoordsOk(snap.x, snap.z)
        ep == EffectivePaused(s3, snap)
        s4 == IF CollectOk(ep.ret, coords_ok, snap)
              THEN [ep.s EXCEPT !.current_lap_samples = Append(@, Sample(snap))]
              ELSE ep.s
    IN IF Some(snap.lap) /= s4.last_lap_num
       THEN [FinalizeCurrentLap(s4, snap)
             EXCEPT !.current_lap_samples = <<>>,
                    !.last_lap_num = Some(snap.lap)]
       ELSE s4

\* TelemetrySession.update_from_snapshot(snap)
UpdateFromSnapshot(s, snap) ==
    LET tot_s == snap.time_on_track_s
        s1 == IF tot_s /= None
              THEN [(IF TimeRegressed(s, Val(tot_s)) THEN ResetSession(s) ELSE s)
                    EXCEPT !.last_time_on_track_s = tot_s]
              ELSE s
        s2 == AdvanceClock(s1, snap.dt)
        s3 == IF s2.last_lap_num = None
              THEN [s2 EXCEPT !.last_lap_num = Some(snap.lap)] ELSE s2
        fin == FinalizeCurrentLap(s3, snap)
        s4 == IF Some(snap.lap) /= s3.last_lap_num
              THEN IF fin.raised THEN fin
                   ELSE [fin EXCEPT !.current_lap_samples = <<>>,
                                    !.last_lap_num = Some(snap.lap)]
              ELSE s3
        coords_ok == CoordsOk(snap.x, snap.z)
        ep == EffectivePaused(s4, snap)
    IN IF s4.raised THEN s4
       ELSE IF CollectOk(ep.ret, coords_ok, snap)
       THEN [ep.s EXCEPT !.current_lap_samples = Append(@, Sample(snap))]
       ELSE ep.s

\* ------------------------------------------------------------- inputs

\* Track positions (x, z) in metres.  PosZero is the all-zero position the
\* game reports off track.  PosA is the start line; PosB is 5 m and PosC 4 m
\* away from it.
PosZero == <<0, 0>>
PosA == <<3, 0>>
PosB == <<0, 4>>
PosC == <<3, 4>>
Positions == {PosZero, PosA, PosB, PosC}

\* The racing line explored: the k-th admitted sample of a lap (k = 0, 1, ...)
\* is at the start line for even k and at the far point for odd k; odd laps
\* take the long way (PosB), even laps the short way (PosC), so that laps
\* differ in total distance.
Track(lap, k) ==
    IF k % 2 = 0 THEN PosA ELSE IF lap % 2 = 1 THEN PosB ELSE PosC

OnTrack(samples) ==
    \A i \in 1..Len(samples) :
        <<samples[i].x, samples[i].z>> = Track(samples[i].lap, i - 1)

\* last_lap_ms values: 0 (no time) and three lap times.
LapTimes == {0, 30500, 30800, 31200}

Snap(tot, lap, last_lap_ms, pos, in_race, paused, throttle, brake, speed, dt) ==
    [time_on_track_s |-> tot, lap |-> lap, last_lap_ms |-> last_lap_ms,
     x |-> pos[1], z |-> pos[2], in_race |-> in_race, paused |-> paused,
     throttle |-> throttle, brake |-> brake, speed_kmh |-> speed, dt |-> dt]

\* Snapshots of a car driving in a race: controls active, time on track
\* steady at 3 s.  At the start line and off track the snapshot carries any
\* lap time; the far points are only ever reached in mid-lap.
DriveSnaps ==
    {Snap(Some(3), lap, ms, pos, TRUE, FALSE, 100, 0, 50, 1) :
        lap \in 1..MaxLapNum, ms \in LapTimes, pos \in {PosZero, PosA}}
    \cup
    {Snap(Some(3), lap, 0, pos, TRUE, FALSE, 100, 0, 50, 1) :
        lap \in 1..MaxLapNum, pos \in {PosB, PosC}}

\* Snapshots taken at the start line while the game reports the pause flag.
PausedSnaps ==
    {Snap(Some(3), lap, 0, PosA, in_race, TRUE, 100, 0, 50, 1) :
        lap \in 1..MaxLapNum, in_race \in BOOLEAN}

\* Snapshots of a car driving while the game's time on track takes the
\* values 0, 1 and 3 s (from 3 s, 1 s is 2 s back and 0 s is 3 s back), or
\* is absent.
ClockSnaps ==
    {Snap(Some(tot), lap, ms, PosA, TRUE, FALSE, 100, 0, 50, 1) :
        tot \in {0, 1, 3}, lap \in 1..MaxLapNum, ms \in {30500, 31200}}
    \cup
    {Snap(Some(tot), lap, 0, pos, TRUE, FALSE, 100, 0, 50, 1) :
        tot \in {0, 1, 3}, lap \in 1..MaxLapNum, pos \in {PosB, PosC}}
    \cup
    {Snap(None, lap, 30500, PosA, TRUE, FALSE, 100, 0, 50, 1) :
        lap \in 1..MaxLapNum}

\* ----------------------------------------------------- transport state

\* GTData.MIN_PACKET_SIZE = 0x93
MinPacketSize == 147
\* GT7Communication.RECV_PORT
RecvPort == 33740

\* Largest package id a datagram carries.
MaxPkgId == 2
\* Largest number of datagrams received.
MaxDatagrams == 3
\* Largest number of heartbeats sent successfully.
MaxHeartbeats == 1

\* GT7Communication.DISCOVERY_SENTINEL
Auto == "AUTO"
\* The console's address.
ConsoleIp == "10.0.0.5"

VARIABLES
    pc,                    \* where run() is: "loop", "discover", "stream", "done"
    shall_run,             \* self._shall_run
    shall_restart,         \* self._shall_restart
    playstation_ip,        \* self.playstation_ip
    discovered_ip,         \* self._discovered_ip: Optional[str]
    open_sockets,          \* number of sockets the worker has open
    bound_recv_port,       \* self._bound_recv_port: Optional[int]
    last_seen_package_id,  \* run()'s local last_seen_package_id: Optional[int]
    last_gtdata,           \* package_id of self._last_gtdata (0 for GTData())
    telemetry_seq,         \* self._telemetry_seq
    rx_datagrams,          \* self._rx_datagrams
    rx_valid_packets,      \* self._rx_valid_packets
    tx_heartbeats,         \* self._tx_heartbeats
    last_rx_time,          \* self._last_rx_time: 0, or the ordinal of the
                           \* datagram at whose receipt it was last set
    last_error,            \* self._last_error: Optional[str]
    last_sender_ip,        \* self._last_sender_ip: Optional[str]
    published              \* package ids handed to _on_sample, in order

transport_vars ==
    <<pc, shall_run, shall_restart, playstation_ip, discovered_ip,
      open_sockets, bound_recv_port, last_seen_package_id, last_gtdata,
      telemetry_seq, rx_datagrams, rx_valid_packets, tx_heartbeats,
      last_rx_time, last_error, last_sender_ip, published>>

\* Bound: snapshot() calls made by the consumer.
MaxSnapshots == 1

\* The state of the threads around the shared fields: the locals of run(),
\* the consumer's snapshot() call and the caller of the control methods.
VARIABLES
    cur_ip,                \* run()'s local ip: Optional[str]
    hb_age,                \* run()'s now_mono - last_hb_time, in eighths of
                           \* a second
    caller_pc,             \* where _on_force_ip is: "idle", "restart", "done"
    reader,                \* the consumer's snapshot() call: its position and
                           \* the values it has read so far
    snapshots,             \* number of snapshot() calls started
    committed              \* history: the values of (last sample, receive
                           \* time, rx_valid_packets, telemetry_seq) between
                           \* the worker's packets

thread_vars == <<cur_ip, hb_age, caller_pc, reader, snapshots, committed>>

\* What the claims on published state compare: the fields a packet updates.
PublishedState ==
    [gtdata |-> last_gtdata, rx_time |-> last_rx_time,
     valid |-> rx_valid_packets, seq |-> telemetry_seq]

\* No snapshot() call is in progress.
ReaderIdle ==
    [pc |-> "idle", gtdata |-> 0, connected |-> 0, seq |-> 0, rx_age |-> 0,
     valid |-> 0]

\* The threads before run() starts.
ThreadInit ==
    /\ cur_ip = None
    /\ hb_age = 0
    /\ caller_pc = "idle"
    /\ reader = ReaderIdle
    /\ snapshots = 0
    /\ committed = {[gtdata |-> 0, rx_time |-> 0, valid |-> 0, seq |-> 0]}

\* A call of one of the analysis functions of telemetry_session.py, which
\* read their arguments and no field of the session.
VARIABLES
    an_call,               \* the call: the function's name and its arguments
    an_ret                 \* what the call did: [kind |-> "none"] before it
                           \* ran, [kind |-> "return", val |-> ...] or
                           \* [kind |-> "raise", exc |-> ...]

analysis_vars == <<an_call, an_ret>>

\* No analysis function has been called.
AnalysisIdle ==
    /\ an_call = [fn |-> "none"]
    /\ an_ret = [kind |-> "none"]

\* The objects AppController keeps beside the session: the RaceState and the
\* EventEngine.
VARIABLES
    race_state,            \* self.state: the RaceState fields consume() reads
    prev_last_lap_ms,      \* EventEngine._prev_last_lap_ms
    prev_bucket,           \* EventEngine._prev_bucket: Optional[int]
    events,                \* the list returned by the latest consume()
    samples_maxlen,        \* self.session._samples.maxlen
    fed                    \* history: the telemetry_seq of every snapshot
                           \* _tick passed to update_from_snapshot, in order

app_vars ==
    <<race_state, prev_last_lap_ms, prev_bucket, events, samples_maxlen, fed>>

\* TelemetrySession(max_samples=36000) in AppController.__init__
DefaultMaxSamples == 36000

\* RaceState(): the defaults of the dataclass.
RaceStateInit ==
    [connected |-> FALSE, lap |-> 0, last_lap_ms |-> 0, fuel_capacity |-> 0,
     fuel_pct |-> <<0, 1>>]

\* RaceState() and EventEngine.__init__; consume() has not been called.
AppIdle ==
    /\ race_state = RaceStateInit
    /\ prev_last_lap_ms = 0
    /\ prev_bucket = None
    /\ events = <<>>
    /\ samples_maxlen = DefaultMaxSamples
    /\ fed = <<>>

\* GT7Communication.__init__, with either a fixed peer or discovery.
TransportInit ==
    /\ pc = "loop"
    /\ shall_run = TRUE
    /\ shall_restart = FALSE
    /\ playstation_ip \in {Auto, ConsoleIp}
    /\ discovered_ip = None
    /\ open_sockets = 0
    /\ bound_recv_port = None
    /\ last_seen_package_id = None
    /\ last_gtdata = 0
    /\ telemetry_seq = 0
    /\ rx_datagrams = 0
    /\ rx_valid_packets = 0
    /\ tx_heartbeats = 0
    /\ last_rx_time = 0
    /\ last_error = None
    /\ last_sender_ip = None
    /\ published = <<>>

\* A received datagram: its sender, its length after decryption, whether
\* the decrypted bytes start with the magic, and the package id at 0x70.
Datagrams ==
    [addr : {ConsoleIp}, size : {MinPacketSize - 1, MinPacketSize},
     magic_ok : BOOLEAN, package_id : 1..MaxPkgId]

\* Variant of Salsa20Dec: the magic is not tested.
Salsa20DecAnyMagic(d) == Some(d)

\* salsa20_dec(dat): b"" unless the magic matches
Salsa20Dec(d) == IF d.magic_ok THEN Some(d) ELSE None

\* _send_hb: tx_heartbeats is incremented unless sendto raises OSError.
SendHb ==
    \/ tx_heartbeats < MaxHeartbeats /\ tx_heartbeats' = tx_heartbeats + 1
    \/ UNCHANGED tx_heartbeats

\* Variant of IsRepeat: no packet is taken for a repeat.
IsRepeatNever(last_seen, pkg_id) == FALSE

\* The value of last_seen_package_id after a packet with pkg_id, and whether
\* the packet is dropped as a repeat (run(), the test on pkg_id).
IsRepeat(last_seen, pkg_id) == last_seen /= None /\ pkg_id = Val(last_seen)

\* run(): bind the streaming socket, send the first heartbeat and enter the
\* streaming loop; an OSError in bind is caught by the outer handler, which
\* records it and closes the socket.
EnterStream(ip) ==
    /\ discovered_ip' = Some(ip)
    /\ \/ /\ pc' = "stream"
          /\ open_sockets' = open_sockets + 1
          /\ bound_recv_port' = Some(RecvPort)
          /\ SendHb
          /\ last_seen_package_id' = None
          /\ UNCHANGED last_error
       \/ /\ pc' = "loop"
          /\ last_error' = Some("Connection loop error")
          /\ bound_recv_port' = None
          /\ UNCHANGED <<open_sockets, tx_heartbeats, last_seen_package_id>>

\* run(): the head of the outer loop.
RunLoop ==
    /\ pc = "loop"
    /\ IF ~shall_run
       THEN /\ pc' = "done"
            /\ UNCHANGED <<shall_restart, discovered_ip, open_sockets,
                           bound_recv_port, last_seen_package_id,
                           tx_heartbeats, last_error>>
       ELSE /\ shall_restart' = FALSE
            /\ IF playstation_ip = Auto
               THEN /\ pc' = "discover"
                    /\ open_sockets' = open_sockets + 1
                    /\ bound_recv_port' = Some(RecvPort)
                    /\ UNCHANGED <<discovered_ip, last_seen_package_id,
                                   tx_heartbeats, last_error>>
               ELSE EnterStream(playstation_ip)
    /\ UNCHANGED <<shall_run, playstation_ip, last_gtdata, telemetry_seq,
                   rx_datagrams, rx_valid_packets, last_rx_time,
                   last_sender_ip, published>>
    /\ UNCHANGED <<session_vars, analysis_vars, app_vars, thread_vars>>

\* _discover_playstation_ip: one iteration that receives a datagram.
DiscoverRecv(d) ==
    /\ pc = "discover"
    /\ shall_run /\ ~shall_restart
    /\ rx_datagrams < MaxDatagrams
    /\ rx_datagrams' = rx_datagrams + 1
    /\ last_sender_ip' = Some(d.addr)
    /\ IF Salsa20Dec(d) /= None
       THEN /\ rx_valid_packets' = rx_valid_packets + 1
            /\ \E closed \in {open_sockets - 1} :
                 /\ discovered_ip' = Some(d.addr)
                 /\ \/ /\ pc' = "stream"
                       /\ open_sockets' = closed + 1
                       /\ bound_recv_port' = Some(RecvPort)
                       /\ SendHb
                       /\ last_seen_package_id' = None
                       /\ UNCHANGED last_error
                    \/ /\ pc' = "loop"
                       /\ open_sockets' = closed
                       /\ last_error' = Some("Connection loop error")
                       /\ bound_recv_port' = None
                       /\ UNCHANGED <<tx_heartbeats, last_seen_package_id>>
       ELSE /\ SendHb
            /\ UNCHANGED <<pc, rx_valid_packets, discovered_ip, open_sockets,
                           bound_recv_port, last_seen_package_id, last_error>>
    /\ UNCHANGED <<shall_run, shall_restart, playstation_ip, last_gtdata,
                   telemetry_seq, last_rx_time, published>>
    /\ UNCHANGED <<session_vars, analysis_vars, app_vars, thread_vars>>

\* _discover_playstation_ip: one iteration whose receive times out.
DiscoverTimeout ==
    /\ pc = "discover"
    /\ shall_run /\ ~shall_restart
    /\ SendHb
    /\ UNCHANGED <<pc, shall_run, shall_restart, playstation_ip,
                   discovered_ip, open_sockets, bound_recv_port,
                   last_seen_package_id, last_gtdata, telemetry_seq,
                   rx_datagrams, rx_valid_packets, last_rx_time, last_error,
                   last_sender_ip, published>>
    /\ UNCHANGED <<session_vars, analysis_vars, app_vars, thread_vars>>

\* _discover_playstation_ip: the loop ends without a peer (time is up, stop
\* or restart was requested) or the socket raises OSError; run() sleeps and
\* starts over.
DiscoverEnd ==
    /\ pc = "discover"
    /\ pc' = "loop"
    /\ open_sockets' = open_sockets - 1
    /\ bound_recv_port' = None
    /\ last_error' \in {Some("No telemetry packets received"),
                        Some("Discovery socket error")}
    /\ UNCHANGED <<shall_run, shall_restart, playstation_ip, discovered_ip,
                   last_seen_package_id, last_gtdata, telemetry_seq,
                   rx_datagrams, rx_valid_packets, tx_heartbeats,
                   last_rx_time, last_sender_ip, published>>
    /\ UNCHANGED <<session_vars, analysis_vars, app_vars, thread_vars>>

\* run(): what a received datagram does to the worker's fields, from
\* recvfrom to self._telemetry_seq += 1.
StreamIngest(d) ==
    /\ rx_datagrams' = rx_datagrams + 1
    /\ last_sender_ip' = Some(d.addr)
    /\ IF Salsa20Dec(d) = None \/ d.size < MinPacketSize
       THEN UNCHANGED <<last_seen_package_id, last_gtdata, telemetry_seq,
                        rx_valid_packets, last_rx_time, last_error, published>>
       ELSE IF IsRepeat(last_seen_package_id, d.package_id)
       THEN /\ last_rx_time' = rx_datagrams'
            /\ last_error' = None
            /\ UNCHANGED <<last_seen_package_id, last_gtdata, telemetry_seq,
                           rx_valid_packets, published>>
       ELSE /\ last_seen_package_id' = Some(d.package_id)
            /\ last_gtdata' = d.package_id
            /\ last_rx_time' = rx_datagrams'
            /\ rx_valid_packets' = rx_valid_packets + 1
            /\ last_error' = None
            /\ published' = Append(published, d.package_id)
            /\ telemetry_seq' = telemetry_seq + 1

\* run(): one iteration of the streaming loop that receives a datagram.
StreamRecv(d) ==
    /\ pc = "stream"
    /\ shall_run /\ ~shall_restart
    /\ rx_datagrams < MaxDatagrams
    /\ SendHb
    /\ StreamIngest(d)
    /\ UNCHANGED <<pc, shall_run, shall_restart, playstation_ip,
                   discovered_ip, open_sockets, bound_recv_port>>
    /\ UNCHANGED <<session_vars, analysis_vars, app_vars, thread_vars>>

\* run(): one iteration of the streaming loop whose receive times out; the
\* no-data report is made once 3 s have passed without a datagram.
StreamTimeout ==
    /\ pc = "stream"
    /\ shall_run /\ ~shall_restart
    /\ SendHb
    /\ last_error' \in {last_error, Some("No telemetry packets")}
    /\ UNCHANGED <<pc, shall_run, shall_restart, playstation_ip,
                   discovered_ip, open_sockets, bound_recv_port,
                   last_seen_package_id, last_gtdata, telemetry_seq,
                   rx_datagrams, rx_valid_packets, last_rx_time,
                   last_sender_ip, published>>
    /\ UNCHANGED <<session_vars, analysis_vars, app_vars, thread_vars>>

\* Variant of StreamEnd: the socket is left open.
StreamEndLeak ==
    /\ pc = "stream"
    /\ pc' = "loop"
    /\ bound_recv_port' = None
    /\ UNCHANGED <<shall_run, shall_restart, playstation_ip, discovered_ip,
                   open_sockets, last_seen_package_id, last_gtdata,
                   telemetry_seq, rx_datagrams, rx_valid_packets,
                   tx_heartbeats, last_rx_time, last_error, last_sender_ip,
                   published>>
    /\ UNCHANGED <<session_vars, analysis_vars, app_vars, thread_vars>>

\* run(): the streaming loop ends (stop or restart requested, or recvfrom
\* raised OSError); the finally block closes the socket.
StreamEnd ==
    /\ pc = "stream"
    /\ pc' = "loop"
    /\ open_sockets' = open_sockets - 1
    /\ bound_recv_port' = None
    /\ UNCHANGED <<shall_run, shall_restart, playstation_ip, discovered_ip,
                   last_seen_package_id, last_gtdata, telemetry_seq,
                   rx_datagrams, rx_valid_packets, tx_heartbeats,
                   last_rx_time, last_error, last_sender_ip, published>>
    /\ UNCHANGED <<session_vars, analysis_vars, app_vars, thread_vars>>

\* GT7Communication.stop(), called from another thread
Stop ==
    /\ shall_run' = FALSE
    /\ UNCHANGED <<pc, shall_restart, playstation_ip, discovered_ip,
                   open_sockets, bound_recv_port, last_seen_package_id,
                   last_gtdata, telemetry_seq, rx_datagrams, rx_valid_packets,
                   tx_heartbeats, last_rx_time, last_error, last_sender_ip,
                   published>>
    /\ UNCHANGED <<session_vars, analysis_vars, app_vars, thread_vars>>

\* GT7Communication.restart(), called from another thread
Restart ==
    /\ shall_restart' = TRUE
    /\ UNCHANGED <<pc, shall_run, playstation_ip, discovered_ip,
                   open_sockets, bound_recv_port, last_seen_package_id,
                   last_gtdata, telemetry_seq, rx_datagrams, rx_valid_packets,
                   tx_heartbeats, last_rx_time, last_error, last_sender_ip,
                   published>>
    /\ UNCHANGED <<session_vars, analysis_vars, app_vars, thread_vars>>

\* GT7Communication.set_playstation_ip(ip), called from another thread
SetPlaystationIp(ip) ==
    /\ playstation_ip' = (IF ip = "" THEN Auto ELSE ip)
    /\ discovered_ip' = (IF playstation_ip' = Auto THEN None ELSE discovered_ip)
    /\ UNCHANGED <<pc, shall_run, shall_restart, open_sockets,
                   bound_recv_port, last_seen_package_id, last_gtdata,
                   telemetry_seq, rx_datagrams, rx_valid_packets,
                   tx_heartbeats, last_rx_time, last_error, last_sender_ip,
                   published>>
    /\ UNCHANGED <<session_vars, analysis_vars, app_vars, thread_vars>>

\* ------------------------------------------------------------ actions

\* The session at the start of a call: the record of the latest call's hook
\* invocations and outcome is cleared.
AtCall(s) == [s EXCEPT !.cb_calls = <<>>, !.cb_seen = None, !.raised = FALSE]

\* The snapshots fed to a session.
AllSnapshots == DriveSnaps \cup PausedSnaps \cup ClockSnaps

\* The session states explored: the bounds, and the racing line.
Explored(s) ==
    /\ Len(s.completed_laps) <= MaxLaps
    /\ Len(s.current_lap_samples) <= MaxBuf
    /\ OnTrack(s.current_lap_samples)
    /\ s.session_id <= MaxResets

Commit(s) == Explored(s) /\ SetSess(s)

\* One call of update_from_snapshot.
DoUpdate(snap) ==
    /\ Commit(UpdateFromSnapshot(AtCall(Sess), snap))
    /\ UNCHANGED <<transport_vars, thread_vars, analysis_vars, app_vars>>

DoLockReference(locked) ==
    /\ SetSess(LockReference(AtCall(Sess), locked))
    /\ UNCHANGED <<transport_vars, thread_vars, analysis_vars, app_vars>>

DoReferenceLap ==
    /\ SetSess(ReferenceLap(AtCall(Sess)).s)
    /\ UNCHANGED <<transport_vars, thread_vars, analysis_vars, app_vars>>

DoSetReferenceByLapNum(lap_num) ==
    /\ SetSess(SetReferenceByLapNum(AtCall(Sess), lap_num).s)
    /\ UNCHANGED <<transport_vars, thread_vars, analysis_vars, app_vars>>

DoSetReferenceBest ==
    /\ SetSess(SetReferenceBest(AtCall(Sess)).s)
    /\ UNCHANGED <<transport_vars, thread_vars, analysis_vars, app_vars>>

\* The reference controls of the session, as the UI calls them.
ReferenceApi ==
    \/ \E locked \in BOOLEAN : DoLockReference(locked)
    \/ DoReferenceLap
    \/ \E lap_num \in 1..MaxLapNum : DoSetReferenceByLapNum(lap_num)
    \/ DoSetReferenceBest

vars == <<session_vars, transport_vars, thread_vars, analysis_vars, app_vars>>

Init == SessInit /\ TransportInit /\ ThreadInit /\ AnalysisIdle /\ AppIdle /\ playstation_ip = Auto

\* A session fed by a car driving laps, with the reference controls.
Next ==
    \/ \E snap \in DriveSnaps \cup PausedSnaps : DoUpdate(snap)
    \/ ReferenceApi

Spec == Init /\ [][Next]_vars

\* A session whose hook is set and either returns or raises an Exception
\* whenever it is called, fed by a car driving laps, with the reference
\* controls.
InitHook ==
    /\ SessFields /\ on_lap_finalized = TRUE /\ hook_raises \in BOOLEAN
    /\ TransportInit /\ ThreadInit /\ AnalysisIdle /\ AppIdle
    /\ playstation_ip = Auto

SpecHook == InitHook /\ [][Next]_vars

\* A session whose time on track jumps, with the reference controls.
NextReset ==
    \/ \E snap \in ClockSnaps : DoUpdate(snap)
    \/ ReferenceApi

SpecReset == Init /\ [][NextReset]_vars

\* Snapshots of a car that may stand still: at the start line, at the far
\* point or off track, in a race or not, with the pause flag or without,
\* with idle controls or with the throttle pressed, 0.3 s or 0.4 s after the
\* previous snapshot.
CarSnaps ==
    {Snap(Some(3), lap, 0, pos, in_race, paused, throttle, 0, 0, dt) :
        lap \in 1..MaxLapNum, pos \in {PosZero, PosA, PosB},
        in_race \in BOOLEAN, paused \in BOOLEAN,
        throttle \in {0, 1}, dt \in {3, 4}}

\* Snapshots of a car at the start line with the brake pressed, or rolling
\* at 1 km/h.
BrakeSnaps ==
    {Snap(Some(3), 1, 0, PosA, TRUE, FALSE, 0, c[1], c[2], dt) :
        c \in {<<1, 0>>, <<0, 1>>}, dt \in {3, 4}}

\* Snapshots of a standing car with idle controls whose time on track is
\* back at 0 s.
RestartSnaps ==
    {Snap(Some(0), lap, 0, PosA, TRUE, FALSE, 0, 0, 0, 4) :
        lap \in 1..MaxLapNum}

FreezeSnaps == CarSnaps \cup BrakeSnaps \cup RestartSnaps

\* Bound of the standing car: completed laps kept.
MaxFreezeLaps == 1

\* The session states explored with a standing car: the bounds, and a
\* buffer without samples taken at the far point.
ExploredFreeze(s) ==
    /\ Len(s.completed_laps) <= MaxFreezeLaps
    /\ Len(s.current_lap_samples) <= MaxBuf
    /\ \A i \in 1..Len(s.current_lap_samples) :
           <<s.current_lap_samples[i].x, s.current_lap_samples[i].z>> /= PosB
    /\ s.session_id <= MaxResets

CommitFreeze(s) == ExploredFreeze(s) /\ SetSess(s)

\* One call of update_from_snapshot for a car that may stand still.
DoFreezeUpdate(snap) ==
    /\ CommitFreeze(UpdateFromSnapshot(AtCall(Sess), snap))
    /\ UNCHANGED <<transport_vars, thread_vars, analysis_vars, app_vars>>

InitFreeze ==
    SessInit /\ on_lap_finalized = TRUE /\ TransportInit /\ ThreadInit
    /\ AnalysisIdle /\ AppIdle /\ playstation_ip = Auto

NextFreeze == \E snap \in FreezeSnaps : DoFreezeUpdate(snap)

\* A session fed by a car that may stand still.
SpecFreeze == InitFreeze /\ [][NextFreeze]_vars

\* Bound of the three-lap stint: completed laps kept.
MaxStintLaps == 3

\* The session states explored in the three-lap stint.
ExploredStint(s) ==
    /\ Len(s.completed_laps) <= MaxStintLaps
    /\ Len(s.current_lap_samples) <= MaxBuf
    /\ OnTrack(s.current_lap_samples)

CommitStint(s) == ExploredStint(s) /\ SetSess(s)

\* One call of update_from_snapshot in the three-lap stint.
DoStintUpdate(snap) ==
    /\ CommitStint(UpdateFromSnapshot(AtCall(Sess), snap))
    /\ UNCHANGED <<transport_vars, thread_vars, analysis_vars, app_vars>>

InitStint ==
    /\ SessInit /\ on_lap_finalized = FALSE
    /\ TransportInit /\ ThreadInit /\ AnalysisIdle /\ AppIdle /\ playstation_ip = Auto

\* A car driving three laps without a pause, with the manual selection
\* and the lock.
NextStint ==
    \/ \E snap \in DriveSnaps : DoStintUpdate(snap)
    \/ \E lap_num \in 1..MaxLapNum : DoSetReferenceByLapNum(lap_num)
    \/ \E locked \in BOOLEAN : DoLockReference(locked)

SpecStint == InitStint /\ [][NextStint]_vars

\* The transport worker and the threads that control it.
InitTransport ==
    SessInit /\ on_lap_finalized = TRUE /\ TransportInit /\ ThreadInit /\ AnalysisIdle /\ AppIdle

NextTransport ==
    \/ RunLoop
    \/ \E d \in Datagrams : DiscoverRecv(d)
    \/ DiscoverTimeout
    \/ DiscoverEnd
    \/ \E d \in Datagrams : StreamRecv(d)
    \/ StreamTimeout
    \/ StreamEnd
    \/ Stop
    \/ Restart
    \/ \E ip \in {"", ConsoleIp} : SetPlaystationIp(ip)

SpecTransport ==
    InitTransport /\ [][NextTransport]_vars

\* run(): the streaming loop ends because its condition
\* (self._shall_run and not self._shall_restart) no longer holds.
StreamExit == ~(shall_run /\ ~shall_restart) /\ StreamEnd

\* The transport with a worker thread that keeps being scheduled.  Every
\* blocking call of run() is bounded (recvfrom by its 0.25 s timeout,
\* discovery by its 3 s budget, the sleeps), so the worker eventually passes
\* the head of its loop, leaves discovery, and leaves the streaming loop
\* once the loop condition fails.
SpecTransportFair ==
    /\ InitTransport /\ [][NextTransport]_vars
    /\ WF_vars(RunLoop) /\ WF_vars(DiscoverEnd) /\ WF_vars(StreamExit)

\* -------------------------------- the head of run()'s loop, by statement

\* The console address entered in the UI.
OtherIp == "10.0.0.9"

\* What the statements at the head of the loop leave alone.
HeadFrame ==
    /\ UNCHANGED <<shall_run, playstation_ip, last_gtdata, telemetry_seq,
                   rx_datagrams, rx_valid_packets, last_rx_time,
                   last_sender_ip, published>>
    /\ UNCHANGED <<session_vars, analysis_vars, app_vars, hb_age, caller_pc, reader, snapshots,
                   committed>>

\* while self._shall_run:
LoopTest ==
    /\ pc = "loop"
    /\ pc' = (IF shall_run THEN "reset" ELSE "done")
    /\ HeadFrame
    /\ UNCHANGED <<shall_restart, discovered_ip, open_sockets,
                   bound_recv_port, last_seen_package_id, tx_heartbeats,
                   last_error, cur_ip>>

\* self._shall_restart = False
ResetRestart ==
    /\ pc = "reset"
    /\ shall_restart' = FALSE
    /\ pc' = "read_ip"
    /\ HeadFrame
    /\ UNCHANGED <<discovered_ip, open_sockets, bound_recv_port,
                   last_seen_package_id, tx_heartbeats, last_error, cur_ip>>

\* ip = self.playstation_ip, then either the start of discovery (its socket
\* bound) or self._discovered_ip = ip
ReadIp ==
    /\ pc = "read_ip"
    /\ IF playstation_ip = Auto
       THEN /\ pc' = "discover"
            /\ cur_ip' = None
            /\ open_sockets' = open_sockets + 1
            /\ bound_recv_port' = Some(RecvPort)
            /\ UNCHANGED discovered_ip
       ELSE /\ pc' = "bind"
            /\ cur_ip' = Some(playstation_ip)
            /\ discovered_ip' = Some(playstation_ip)
            /\ UNCHANGED <<open_sockets, bound_recv_port>>
    /\ HeadFrame
    /\ UNCHANGED <<shall_restart, last_seen_package_id, tx_heartbeats,
                   last_error>>

\* Variant of DiscoverFound: the discovery socket is left open when the
\* console is found.
DiscoverFoundLeak(d) ==
    /\ pc = "discover"
    /\ shall_run /\ ~shall_restart
    /\ rx_datagrams < MaxDatagrams
    /\ SendHb
    /\ rx_datagrams' = rx_datagrams + 1
    /\ last_sender_ip' = Some(d.addr)
    /\ IF Salsa20Dec(d) /= None
       THEN /\ rx_valid_packets' = rx_valid_packets + 1
            /\ bound_recv_port' = None
            /\ cur_ip' = Some(d.addr)
            /\ discovered_ip' = Some(d.addr)
            /\ pc' = "bind"
            /\ UNCHANGED open_sockets
       ELSE UNCHANGED <<rx_valid_packets, open_sockets, bound_recv_port,
                        cur_ip, discovered_ip, pc>>
    /\ UNCHANGED <<shall_run, shall_restart, playstation_ip,
                   last_seen_package_id, last_gtdata, telemetry_seq,
                   last_rx_time, last_error, published>>
    /\ UNCHANGED <<session_vars, analysis_vars, app_vars, hb_age, caller_pc, reader, snapshots,
                   committed>>

\* _discover_playstation_ip: one iteration that receives a datagram; one
\* that decrypts to the magic ends discovery with its sender as ip.
DiscoverFound(d) ==
    /\ pc = "discover"
    /\ shall_run /\ ~shall_restart
    /\ rx_datagrams < MaxDatagrams
    /\ SendHb
    /\ rx_datagrams' = rx_datagrams + 1
    /\ last_sender_ip' = Some(d.addr)
    /\ IF Salsa20Dec(d) /= None
       THEN /\ rx_valid_packets' = rx_valid_packets + 1
            /\ open_sockets' = open_sockets - 1
            /\ bound_recv_port' = None
            /\ cur_ip' = Some(d.addr)
            /\ discovered_ip' = Some(d.addr)
            /\ pc' = "bind"
       ELSE UNCHANGED <<rx_valid_packets, open_sockets, bound_recv_port,
                        cur_ip, discovered_ip, pc>>
    /\ UNCHANGED <<shall_run, shall_restart, playstation_ip,
                   last_seen_package_id, last_gtdata, telemetry_seq,
                   last_rx_time, last_error, published>>
    /\ UNCHANGED <<session_vars, analysis_vars, app_vars, hb_age, caller_pc, reader, snapshots,
                   committed>>

\* Variant of BindOk: entering the streaming loop clears the restart flag.
BindOkClearingRestart ==
    /\ pc = "bind"
    /\ pc' = "stream"
    /\ shall_restart' = FALSE
    /\ open_sockets' = open_sockets + 1
    /\ bound_recv_port' = Some(RecvPort)
    /\ SendHb
    /\ last_seen_package_id' = None
    /\ HeadFrame
    /\ UNCHANGED <<discovered_ip, last_error, cur_ip>>

\* s = self._make_socket() ... last_seen_package_id = None: the socket is
\* bound and the first heartbeat goes to ip.
BindOk ==
    /\ pc = "bind"
    /\ pc' = "stream"
    /\ open_sockets' = open_sockets + 1
    /\ bound_recv_port' = Some(RecvPort)
    /\ SendHb
    /\ last_seen_package_id' = None
    /\ HeadFrame
    /\ UNCHANGED <<shall_restart, discovered_ip, last_error, cur_ip>>

\* s.bind raises OSError: the handler records it, the socket is closed and
\* run() sleeps before the next round.
BindFails ==
    /\ pc = "bind"
    /\ pc' = "loop"
    /\ last_error' = Some("Connection loop error")
    /\ bound_recv_port' = None
    /\ HeadFrame
    /\ UNCHANGED <<shall_restart, discovered_ip, open_sockets,
                   last_seen_package_id, tx_heartbeats, cur_ip>>

\* What _on_force_ip leaves alone.
CallerFrame ==
    /\ UNCHANGED <<pc, shall_run, discovered_ip, open_sockets,
                   bound_recv_port, last_seen_package_id, last_gtdata,
                   telemetry_seq, rx_datagrams, rx_valid_packets,
                   tx_heartbeats, last_rx_time, last_error, last_sender_ip,
                   published>>
    /\ UNCHANGED <<session_vars, analysis_vars, app_vars, cur_ip, hb_age, reader, snapshots, committed>>

\* AppController._on_force_ip: self.comm.set_playstation_ip(ip)
ForceIpSet ==
    /\ caller_pc = "idle"
    /\ playstation_ip' = OtherIp
    /\ caller_pc' = "restart"
    /\ UNCHANGED shall_restart
    /\ CallerFrame

\* AppController._on_force_ip: self.comm.restart()
ForceIpRestart ==
    /\ caller_pc = "restart"
    /\ shall_restart' = TRUE
    /\ caller_pc' = "done"
    /\ UNCHANGED playstation_ip
    /\ CallerFrame

\* The worker, the head of its loop taken statement by statement, and the UI
\* thread forcing a console address at any moment.
InitForceIp ==
    SessInit /\ on_lap_finalized = TRUE /\ TransportInit /\ ThreadInit /\ AnalysisIdle /\ AppIdle

NextForceIp ==
    \/ LoopTest
    \/ ResetRestart
    \/ ReadIp
    \/ \E d \in Datagrams : DiscoverFound(d)
    \/ DiscoverTimeout
    \/ DiscoverEnd
    \/ BindOk
    \/ BindFails
    \/ \E d \in Datagrams : StreamRecv(d)
    \/ StreamTimeout
    \/ StreamEnd
    \/ ForceIpSet
    \/ ForceIpRestart

\* The worker keeps being scheduled (as in SpecTransportFair), and a bind
\* that is attempted again and again eventually succeeds.
SpecForceIp ==
    /\ InitForceIp /\ [][NextForceIp]_vars
    /\ WF_vars(LoopTest) /\ WF_vars(ResetRestart) /\ WF_vars(ReadIp)
    /\ WF_vars(DiscoverEnd) /\ WF_vars(StreamExit) /\ SF_vars(BindOk)

\* ------------------------------------------ the worker and its sockets

\* Datagrams from the console and from another sender on the network.
PeerDatagrams ==
    [addr : {ConsoleIp, OtherIp}, size : {MinPacketSize - 1, MinPacketSize},
     magic_ok : BOOLEAN, package_id : {1}]

\* The worker, the head of its loop taken statement by statement so that
\* closing one socket and creating the next are separate steps, with
\* stop() and restart() called at any moment.
InitWorker ==
    SessInit /\ on_lap_finalized = TRUE /\ TransportInit /\ ThreadInit /\ AnalysisIdle /\ AppIdle

NextWorker ==
    \/ LoopTest
    \/ ResetRestart
    \/ ReadIp
    \/ \E d \in PeerDatagrams : DiscoverFound(d)
    \/ DiscoverTimeout
    \/ DiscoverEnd
    \/ BindOk
    \/ BindFails
    \/ \E d \in PeerDatagrams : StreamRecv(d)
    \/ StreamTimeout
    \/ StreamEnd
    \/ Stop
    \/ Restart

SpecWorker == InitWorker /\ [][NextWorker]_vars

\* ------------------------------------- the packet update, by statement

\* The variables the statements of the packet update leave alone.
PubFrame ==
    UNCHANGED <<shall_run, shall_restart, playstation_ip, discovered_ip,
                open_sockets, bound_recv_port>>

\* run(): an iteration of the streaming loop from its head to the test for
\* a repeat.  A datagram that is not a repeat leaves the worker in front of
\* self._last_gtdata = gt.
PubRecv(d) ==
    /\ pc = "stream"
    /\ shall_run /\ ~shall_restart
    /\ rx_datagrams < MaxDatagrams
    /\ SendHb
    /\ rx_datagrams' = rx_datagrams + 1
    /\ last_sender_ip' = Some(d.addr)
    /\ IF Salsa20Dec(d) = None \/ d.size < MinPacketSize
       THEN UNCHANGED <<pc, last_seen_package_id, last_rx_time, last_error,
                        committed>>
       ELSE IF IsRepeat(last_seen_package_id, d.package_id)
       THEN /\ last_rx_time' = rx_datagrams + 1
            /\ last_error' = None
            /\ committed' = committed \cup
                   {[PublishedState EXCEPT !.rx_time = rx_datagrams + 1]}
            /\ UNCHANGED <<pc, last_seen_package_id>>
       ELSE /\ last_seen_package_id' = Some(d.package_id)
            /\ pc' = "pub_gtdata"
            /\ UNCHANGED <<last_rx_time, last_error, committed>>
    /\ PubFrame
    /\ UNCHANGED <<last_gtdata, telemetry_seq, rx_valid_packets, published>>
    /\ UNCHANGED <<session_vars, analysis_vars, app_vars, cur_ip, hb_age, caller_pc, reader, snapshots>>

\* gt = GTData.from_packet(ddata); self._last_gtdata = gt
PubGtdata ==
    /\ pc = "pub_gtdata"
    /\ last_gtdata' = Val(last_seen_package_id)
    /\ pc' = "pub_rx_time"
    /\ PubFrame
    /\ UNCHANGED <<last_seen_package_id, telemetry_seq, rx_datagrams,
                   rx_valid_packets, tx_heartbeats, last_rx_time, last_error,
                   last_sender_ip, published>>
    /\ UNCHANGED <<session_vars, analysis_vars, app_vars, thread_vars>>

\* self._last_rx_time = time.time()
PubRxTime ==
    /\ pc = "pub_rx_time"
    /\ last_rx_time' = rx_datagrams
    /\ pc' = "pub_valid"
    /\ PubFrame
    /\ UNCHANGED <<last_seen_package_id, last_gtdata, telemetry_seq,
                   rx_datagrams, rx_valid_packets, tx_heartbeats, last_error,
                   last_sender_ip, published>>
    /\ UNCHANGED <<session_vars, analysis_vars, app_vars, thread_vars>>

\* self._rx_valid_packets += 1
PubValid ==
    /\ pc = "pub_valid"
    /\ rx_valid_packets' = rx_valid_packets + 1
    /\ pc' = "pub_error"
    /\ PubFrame
    /\ UNCHANGED <<last_seen_package_id, last_gtdata, telemetry_seq,
                   rx_datagrams, tx_heartbeats, last_rx_time, last_error,
                   last_sender_ip, published>>
    /\ UNCHANGED <<session_vars, analysis_vars, app_vars, thread_vars>>

\* self._clear_error(); self._on_sample(gt)
PubClearError ==
    /\ pc = "pub_error"
    /\ last_error' = None
    /\ published' = Append(published, last_gtdata)
    /\ pc' = "pub_seq"
    /\ PubFrame
    /\ UNCHANGED <<last_seen_package_id, last_gtdata, telemetry_seq,
                   rx_datagrams, rx_valid_packets, tx_heartbeats,
                   last_rx_time, last_sender_ip>>
    /\ UNCHANGED <<session_vars, analysis_vars, app_vars, thread_vars>>

\* self._telemetry_seq += 1, which ends the packet's update.
PubSeq ==
    /\ pc = "pub_seq"
    /\ telemetry_seq' = telemetry_seq + 1
    /\ pc' = "stream"
    /\ committed' = committed \cup
           {[PublishedState EXCEPT !.seq = telemetry_seq + 1]}
    /\ PubFrame
    /\ UNCHANGED <<last_seen_package_id, last_gtdata, rx_datagrams,
                   rx_valid_packets, tx_heartbeats, last_rx_time, last_error,
                   last_sender_ip, published>>
    /\ UNCHANGED <<session_vars, analysis_vars, app_vars, cur_ip, hb_age, caller_pc, reader, snapshots>>

\* ------------------------------------------------ snapshot(), by read

\* What a step of snapshot() leaves alone.
ReaderFrame ==
    UNCHANGED <<session_vars, analysis_vars, app_vars, transport_vars, cur_ip, hb_age, caller_pc,
                committed>>

\* snapshot(): d = self._last_gtdata
SnapshotCall ==
    /\ reader.pc \in {"idle", "returned"}
    /\ snapshots < MaxSnapshots
    /\ snapshots' = snapshots + 1
    /\ reader' = [ReaderIdle EXCEPT !.pc = "connected", !.gtdata = last_gtdata]
    /\ ReaderFrame

\* is_connected(): self._last_rx_time > 0, which decides "connected" when
\* the time is 0
IsConnectedTest ==
    /\ reader.pc = "connected"
    /\ reader' = [reader EXCEPT !.pc = IF last_rx_time > 0
                                       THEN "connected_age" ELSE "seq"]
    /\ UNCHANGED snapshots
    /\ ReaderFrame

\* is_connected(): (time.time() - self._last_rx_time) <= 1.0
IsConnectedAge ==
    /\ reader.pc = "connected_age"
    /\ reader' = [reader EXCEPT !.pc = "seq", !.connected = last_rx_time]
    /\ UNCHANGED snapshots
    /\ ReaderFrame

\* snapshot(): "telemetry_seq": self._telemetry_seq
ReadSeq ==
    /\ reader.pc = "seq"
    /\ reader' = [reader EXCEPT !.pc = "rx_age", !.seq = telemetry_seq]
    /\ UNCHANGED snapshots
    /\ ReaderFrame

\* snapshot(): "rx_age_s": None if self._last_rx_time == 0
RxAgeTest ==
    /\ reader.pc = "rx_age"
    /\ reader' = [reader EXCEPT !.pc = IF last_rx_time = 0
                                       THEN "valid" ELSE "rx_age_value"]
    /\ UNCHANGED snapshots
    /\ ReaderFrame

\* snapshot(): "rx_age_s": time.time() - self._last_rx_time
RxAgeValue ==
    /\ reader.pc = "rx_age_value"
    /\ reader' = [reader EXCEPT !.pc = "valid", !.rx_age = last_rx_time]
    /\ UNCHANGED snapshots
    /\ ReaderFrame

\* snapshot(): "rx_valid_packets": self._rx_valid_packets, and the return
\* (the remaining entries come from d).
ReadValid ==
    /\ reader.pc = "valid"
    /\ reader' = [reader EXCEPT !.pc = "returned", !.valid = rx_valid_packets]
    /\ UNCHANGED snapshots
    /\ ReaderFrame

\* The worker streaming from a fixed peer, its packet update taken statement
\* by statement, and a consumer calling snapshot() on another thread.
InitPublish ==
    /\ SessInit /\ on_lap_finalized = TRUE
    /\ TransportInit /\ playstation_ip = ConsoleIp
    /\ ThreadInit /\ AnalysisIdle /\ AppIdle

NextPublish ==
    \/ RunLoop
    \/ \E d \in Datagrams : PubRecv(d)
    \/ PubGtdata
    \/ PubRxTime
    \/ PubValid
    \/ PubClearError
    \/ PubSeq
    \/ StreamTimeout
    \/ SnapshotCall
    \/ IsConnectedTest
    \/ IsConnectedAge
    \/ ReadSeq
    \/ RxAgeTest
    \/ RxAgeValue
    \/ ReadValid

SpecPublish == InitPublish /\ [][NextPublish]_vars

\* ------------------------------------ the streaming loop, with its clock

\* self._socket_timeout_s = 0.25, in eighths of a second
RecvTimeout == 2
\* self._hb_interval_s with its default of 1.00 s, in eighths of a second
HbInterval == 8

\* (now_mono - last_hb_time) >= self._hb_interval_s
HbDue(age) == age >= HbInterval

\* now_mono - last_hb_time after the heartbeat-due check: the check sets
\* last_hb_time = now_mono when it sends.
AfterHbCheck(age) == IF HbDue(age) THEN 0 ELSE age

\* What an iteration of the streaming loop leaves alone.
TimedFrame ==
    /\ UNCHANGED <<pc, shall_run, shall_restart, playstation_ip,
                   discovered_ip, open_sockets, bound_recv_port>>
    /\ UNCHANGED <<session_vars, analysis_vars, app_vars, cur_ip, caller_pc, reader, snapshots,
                   committed>>

\* run(): one pass of the outer loop for a fixed peer: the socket is bound,
\* the first heartbeat sent and last_hb_time = time.monotonic().
TimedEnter ==
    /\ pc = "loop"
    /\ shall_run
    /\ playstation_ip /= Auto
    /\ shall_restart' = FALSE
    /\ EnterStream(playstation_ip)
    /\ hb_age' = 0
    /\ UNCHANGED <<shall_run, playstation_ip, last_gtdata, telemetry_seq,
                   rx_datagrams, rx_valid_packets, last_rx_time,
                   last_sender_ip, published>>
    /\ UNCHANGED <<session_vars, analysis_vars, app_vars, cur_ip, caller_pc, reader, snapshots,
                   committed>>

\* Variant of TimedStreamRecv: no heartbeat-due check at the head of the loop.
TimedStreamRecvUnchecked(d, dt) ==
    /\ pc = "stream"
    /\ shall_run /\ ~shall_restart
    /\ rx_datagrams < MaxDatagrams
    /\ UNCHANGED tx_heartbeats
    /\ hb_age' = hb_age + dt
    /\ StreamIngest(d)
    /\ TimedFrame

\* run(): one iteration of the streaming loop whose recvfrom returns a
\* datagram after dt: the heartbeat-due check, the receive, the datagram's
\* processing.
TimedStreamRecv(d, dt) ==
    /\ pc = "stream"
    /\ shall_run /\ ~shall_restart
    /\ rx_datagrams < MaxDatagrams
    /\ IF HbDue(hb_age) THEN SendHb ELSE UNCHANGED tx_heartbeats
    /\ hb_age' = AfterHbCheck(hb_age) + dt
    /\ StreamIngest(d)
    /\ TimedFrame

\* run(): one iteration of the streaming loop whose recvfrom times out:
\* the heartbeat-due check, the wait, and the check of the timeout handler.
TimedStreamTimeout ==
    /\ pc = "stream"
    /\ shall_run /\ ~shall_restart
    /\ IF HbDue(hb_age) \/ HbDue(AfterHbCheck(hb_age) + RecvTimeout)
       THEN SendHb ELSE UNCHANGED tx_heartbeats
    /\ hb_age' = AfterHbCheck(AfterHbCheck(hb_age) + RecvTimeout)
    /\ last_error' \in {last_error, Some("No telemetry packets")}
    /\ UNCHANGED <<last_seen_package_id, last_gtdata, telemetry_seq,
                   rx_datagrams, rx_valid_packets, last_rx_time,
                   last_sender_ip, published>>
    /\ TimedFrame

\* The worker streaming from a fixed peer, with the time between heartbeats.
NextHeartbeat ==
    \/ TimedEnter
    \/ \E d \in Datagrams, dt \in 0..RecvTimeout : TimedStreamRecv(d, dt)
    \/ TimedStreamTimeout
    \/ StreamEnd

SpecHeartbeat == InitPublish /\ [][NextHeartbeat]_vars

\* ------------------------------------------- resampling by distance

\* Bounds of the resampling calls explored: the number of values, the
\* largest cumulative distance in metres and the largest requested n.
MaxPts == 3
MaxDistM == 2
MaxN == 4

\* A float that need not be whole is a rational in lowest terms,
\* <<numerator, denominator>> with a positive denominator.
RECURSIVE Gcd(_, _)
Gcd(a, b) == IF b = 0 THEN a ELSE Gcd(b, a % b)

Frac(num, den) ==
    LET g == Gcd(Abs(num), Abs(den))
        sgn == IF den < 0 THEN -1 ELSE 1
    IN <<(sgn * num) \div g, (sgn * den) \div g>>

\* A whole number as a float.
Whole(v) == <<v, 1>>

\* What a call did.
Return(val) == [kind |-> "return", val |-> val]

Raise(exc) == [kind |-> "raise", exc |-> exc]

\* [v] * n
Copies(v, n) == [i \in 1..n |-> v]

\* while j + 1 < len(cumdist) and cumdist[j + 1] < td: j += 1
\* with td = td_num / td_den and td_den > 0.
RECURSIVE AdvanceJ(_, _, _, _)
AdvanceJ(cumdist, j, td_num, td_den) ==
    IF j + 1 < Len(cumdist) /\ cumdist[j + 2] * td_den < td_num
    THEN AdvanceJ(cumdist, j + 1, td_num, td_den)
    ELSE j

\* The loop of _resample_by_distance over the targets
\* td = total * (i / (n - 1)), i = 0 .. n-1, for n >= 2.
RECURSIVE ResampleLoop(_, _, _, _, _, _)
ResampleLoop(points, cumdist, n, i, j, out) ==
    IF i >= n THEN out
    ELSE LET total == cumdist[Len(cumdist)]
             td_num == total * i
             td_den == n - 1
             j2 == AdvanceJ(cumdist, j, td_num, td_den)
         IN IF j2 + 1 >= Len(cumdist)
            THEN ResampleLoop(points, cumdist, n, i + 1, j2,
                     Append(out, <<Whole(points[Len(points)][1]),
                                   Whole(points[Len(points)][2])>>))
            ELSE LET d0 == cumdist[j2 + 1]
                     d1 == cumdist[j2 + 2]
                     a_num == td_num - d0 * td_den
                     a_den == td_den * (d1 - d0)
                     p0 == points[j2 + 1]
                     p1 == points[j2 + 2]
                 IN IF 1000000000 * (d1 - d0) < 1
                    THEN ResampleLoop(points, cumdist, n, i + 1, j2,
                             Append(out, <<Whole(p0[1]), Whole(p0[2])>>))
                    ELSE ResampleLoop(points, cumdist, n, i + 1, j2,
                             Append(out,
                                 <<Frac(p0[1] * a_den + a_num * (p1[1] - p0[1]),
                                        a_den),
                                   Frac(p0[2] * a_den + a_num * (p1[2] - p0[2]),
                                        a_den)>>))

\* _resample_by_distance(points, cumdist, n).  The targets are built before
\* the loop: for n = 1 the first one divides 0 by n - 1 = 0; for n <= 0 there
\* is none.
ResampleByDistance(points, cumdist, n) ==
    IF points = <<>> \/ cumdist = <<>> \/ Len(points) # Len(cumdist)
    THEN Return(<<>>)
    ELSE IF 1000000 * cumdist[Len(cumdist)] <= 1
    THEN Return(Copies(<<Whole(points[1][1]), Whole(points[1][2])>>, n))
    ELSE IF n = 1 THEN Raise("ZeroDivisionError")
    ELSE Return(ResampleLoop(points, cumdist, n, 0, 0, <<>>))

\* The loop of _resample_series_by_distance.
RECURSIVE ResampleSeriesLoop(_, _, _, _, _, _)
ResampleSeriesLoop(series, cumdist, n, i, j, out) ==
    IF i >= n THEN out
    ELSE LET total == cumdist[Len(cumdist)]
             td_num == total * i
             td_den == n - 1
             j2 == AdvanceJ(cumdist, j, td_num, td_den)
         IN IF j2 + 1 >= Len(cumdist)
            THEN ResampleSeriesLoop(series, cumdist, n, i + 1, j2,
                     Append(out, Whole(series[Len(series)])))
            ELSE LET d0 == cumdist[j2 + 1]
                     d1 == cumdist[j2 + 2]
                     a_num == td_num - d0 * td_den
                     a_den == td_den * (d1 - d0)
                     v0 == series[j2 + 1]
                     v1 == series[j2 + 2]
                 IN IF 1000000000 * (d1 - d0) < 1
                    THEN ResampleSeriesLoop(series, cumdist, n, i + 1, j2,
                             Append(out, Whole(v0)))
                    ELSE ResampleSeriesLoop(series, cumdist, n, i + 1, j2,
                             Append(out,
                                 Frac(v0 * a_den + a_num * (v1 - v0), a_den)))

\* _resample_series_by_distance(series, cumdist, n)
ResampleSeriesByDistance(series, cumdist, n) ==
    IF series = <<>> \/ cumdist = <<>> \/ Len(series) # Len(cumdist)
    THEN Return(<<>>)
    ELSE IF 1000000 * cumdist[Len(cumdist)] <= 1
    THEN Return(Copies(Whole(series[1]), n))
    ELSE IF n = 1 THEN Raise("ZeroDivisionError")
    ELSE Return(ResampleSeriesLoop(series, cumdist, n, 0, 0, <<>>))

\* All sequences over S of length 0 .. k.
SeqsUpTo(S, k) == UNION {[1..m -> S] : m \in 0..k}

\* The arguments explored: values and distance arrays of any lengths up to
\* MaxPts, equal or not, and every n up to MaxN.
ResamplePoints == SeqsUpTo({PosA, PosB}, MaxPts)

ResampleSeries == SeqsUpTo({0, 3}, MaxPts)

ResampleCumdists == SeqsUpTo(0..MaxDistM, MaxPts)

ResampleCalls ==
    {[fn |-> "_resample_by_distance", values |-> p, cumdist |-> c, n |-> n] :
        p \in ResamplePoints, c \in ResampleCumdists, n \in 0..MaxN}
    \cup
    {[fn |-> "_resample_series_by_distance", values |-> s, cumdist |-> c,
      n |-> n] :
        s \in ResampleSeries, c \in ResampleCumdists, n \in 0..MaxN}

\* Everything but the analysis call stays as constructed.
AnalysisFrame ==
    UNCHANGED <<session_vars, transport_vars, thread_vars, app_vars>>

\* A call of _resample_by_distance with the arguments of an_call.
DoResampleByDistance ==
    /\ an_call.fn = "_resample_by_distance"
    /\ an_ret.kind = "none"
    /\ an_ret' = ResampleByDistance(an_call.values, an_call.cumdist, an_call.n)
    /\ UNCHANGED an_call
    /\ AnalysisFrame

\* A call of _resample_series_by_distance with the arguments of an_call.
DoResampleSeriesByDistance ==
    /\ an_call.fn = "_resample_series_by_distance"
    /\ an_ret.kind = "none"
    /\ an_ret' = ResampleSeriesByDistance(an_call.values, an_call.cumdist,
                                          an_call.n)
    /\ UNCHANGED an_call
    /\ AnalysisFrame

InitResample ==
    /\ SessInit /\ on_lap_finalized = TRUE
    /\ TransportInit /\ playstation_ip = Auto
    /\ ThreadInit
    /\ an_call \in ResampleCalls
    /\ an_ret = [kind |-> "none"]
    /\ AppIdle

NextResample == DoResampleByDistance \/ DoResampleSeriesByDistance

SpecResample == InitResample /\ [][NextResample]_vars

\* --------------------------------------------- lap analysis functions

\* Float arithmetic on rationals.
FracSub(a, b) == Frac(a[1] * b[2] - b[1] * a[2], a[2] * b[2])

FracAdd(a, b) == Frac(a[1] * b[2] + b[1] * a[2], a[2] * b[2])

FracScale(a, k) == Frac(a[1] * k, a[2])

FracLt(a, b) == a[1] * b[2] < b[1] * a[2]

FracLe(a, b) == a[1] * b[2] <= b[1] * a[2]

\* int(round(x)): the nearest whole number, a tie going to the even one.
RoundHalfEven(x) ==
    LET fl == x[1] \div x[2]
        twice == 2 * (x[1] - fl * x[2])
    IN IF twice < x[2] THEN fl
       ELSE IF twice > x[2] THEN fl + 1
       ELSE IF fl % 2 = 0 THEN fl ELSE fl + 1

\* [s.<field> for s in samples if abs(s.x) > 1e-6 or abs(s.z) > 1e-6]
RECURSIVE ValidField(_, _)
ValidField(samples, field) ==
    IF samples = <<>> THEN <<>>
    ELSE LET s == Head(samples)
             rest == ValidField(Tail(samples), field)
         IN IF CoordsOk(s.x, s.z) THEN <<s[field]>> \o rest ELSE rest

\* The while loop of _interp_time_at_distance, for a whole-or-fractional
\* target target_d.
RECURSIVE InterpAdvanceJ(_, _, _)
InterpAdvanceJ(cumdist, j, target_d) ==
    IF j + 1 < Len(cumdist) /\ FracLt(Whole(cumdist[j + 2]), target_d)
    THEN InterpAdvanceJ(cumdist, j + 1, target_d)
    ELSE j

\* _interp_time_at_distance(cumdist, ts, target_d): reading cumdist[j + 1]
\* past the end of a one-element array raises.
InterpTimeAtDistance(cumdist, ts, target_d) ==
    IF cumdist = <<>> \/ ts = <<>> \/ Len(cumdist) # Len(ts)
    THEN Return(IF ts # <<>> THEN Whole(ts[Len(ts)]) ELSE Whole(0))
    ELSE IF FracLe(target_d, Whole(0)) THEN Return(Whole(ts[1]))
    ELSE IF FracLe(Whole(cumdist[Len(cumdist)]), target_d)
    THEN Return(Whole(ts[Len(ts)]))
    ELSE LET j == InterpAdvanceJ(cumdist, 0, target_d)
         IN IF j + 1 >= Len(cumdist) THEN Raise("IndexError")
            ELSE LET d0 == cumdist[j + 1]
                     d1 == cumdist[j + 2]
                     t0 == ts[j + 1]
                     t1 == ts[j + 2]
                     a == Frac(target_d[1] - d0 * target_d[2],
                               target_d[2] * (d1 - d0))
                 IN IF 1000000000 * (d1 - d0) < 1 THEN Return(Whole(t0))
                    ELSE Return(FracAdd(Whole(t0), FracScale(a, t1 - t0)))

\* sector_splits_m(lap)
SectorSplitsM(lap) ==
    LET total == IF lap.cum_dist_m # <<>>
                 THEN lap.cum_dist_m[Len(lap.cum_dist_m)] ELSE 0
    IN <<Frac(total, 3), Frac(2 * total, 3)>>

\* max(s, 0)
Max0(s) == IF s > 0 THEN s ELSE 0

\* sector_times_ms(lap): None for fewer than 2 points or a count of valid
\* samples other than the length of the distance array; ts[0] raises when
\* both are empty.
SectorTimesMs(lap) ==
    IF Len(lap.points_xz) < 2 THEN Return(None)
    ELSE LET ts == ValidField(lap.samples, "t")
         IN IF Len(ts) # Len(lap.cum_dist_m) THEN Return(None)
            ELSE IF ts = <<>> THEN Raise("IndexError")
            ELSE LET d == SectorSplitsM(lap)
                     t0 == Whole(ts[1])
                     t_at_d1 == InterpTimeAtDistance(lap.cum_dist_m, ts, d[1])
                     t_at_d2 == InterpTimeAtDistance(lap.cum_dist_m, ts, d[2])
                     t_end == Whole(ts[Len(ts)])
                 IN IF t_at_d1.kind = "raise" THEN t_at_d1
                    ELSE IF t_at_d2.kind = "raise" THEN t_at_d2
                    ELSE LET s1 == RoundHalfEven(FracScale(
                                       FracSub(t_at_d1.val, t0), 1000))
                             s2 == RoundHalfEven(FracScale(
                                       FracSub(t_at_d2.val, t_at_d1.val), 1000))
                             s3 == RoundHalfEven(FracScale(
                                       FracSub(t_end, t_at_d2.val), 1000))
                         IN Return(Some(<<Max0(s1), Max0(s2), Max0(s3)>>))

\* The shared body of the two delta profiles: the series of both laps
\* resampled to n bins and subtracted bin by bin, times scale.
DeltaProfile(last_series, ref_series, last, ref, n, scale) ==
    LET last_r == ResampleSeriesByDistance(last_series, last.cum_dist_m, n)
        ref_r == ResampleSeriesByDistance(ref_series, ref.cum_dist_m, n)
    IN IF last_r.kind = "raise" THEN last_r
       ELSE IF ref_r.kind = "raise" THEN ref_r
       ELSE IF \/ last_r.val = <<>> \/ ref_r.val = <<>>
               \/ Len(last_r.val) # Len(ref_r.val)
       THEN Return(None)
       ELSE Return(Some([i \in 1..n |->
                FracScale(FracSub(last_r.val[i], ref_r.val[i]), scale)]))

\* delta_profile_speed(last, ref, n)
DeltaProfileSpeed(last, ref, n) ==
    IF last.cum_dist_m = <<>> \/ ref.cum_dist_m = <<>> THEN Return(None)
    ELSE LET last_speeds == ValidField(last.samples, "speed_kmh")
             ref_speeds == ValidField(ref.samples, "speed_kmh")
         IN IF \/ Len(last_speeds) # Len(last.cum_dist_m)
               \/ Len(ref_speeds) # Len(ref.cum_dist_m)
            THEN Return(None)
            ELSE DeltaProfile(last_speeds, ref_speeds, last, ref, n, 1)

\* [t - ts[0] for t in ts]
Elapsed(ts) == [i \in 1..Len(ts) |-> ts[i] - ts[1]]

\* delta_profile_time_ms(last, ref, n).  Past the length test both series
\* are as long as the non-empty distance arrays, so ts[0] exists.
DeltaProfileTimeMs(last, ref, n) ==
    IF last.cum_dist_m = <<>> \/ ref.cum_dist_m = <<>> THEN Return(None)
    ELSE LET last_ts == ValidField(last.samples, "t")
             ref_ts == ValidField(ref.samples, "t")
         IN IF \/ Len(last_ts) # Len(last.cum_dist_m)
               \/ Len(ref_ts) # Len(ref.cum_dist_m)
            THEN Return(None)
            ELSE DeltaProfile(Elapsed(last_ts), Elapsed(ref_ts), last, ref, n,
                              1000)

\* math.pi in thousandths of a radian, rounded to an even number so that
\* a quarter turn is exactly half of a half turn.
PiMilli == 3142

\* The defaults of corner_segments: curvature_thresh = 0.020 (in
\* thousandths of a radian), min_len = 6, max_gap = 2, smooth_w = 7.
DefaultCurvatureThresh == 20
DefaultMinLen == 6
DefaultMaxGap == 2
DefaultSmoothW == 7

Sign(v) == IF v > 0 THEN 1 ELSE IF v < 0 THEN -1 ELSE 0

Min(a, b) == IF a < b THEN a ELSE b

Max(a, b) == IF a > b THEN a ELSE b

FracAbs(a) == <<Abs(a[1]), a[2]>>

\* math.atan2(dz, dx) in thousandths of a radian, on the offsets that the
\* axis-parallel paths of the model produce: 0 for no offset and for +x,
\* pi/2 for +z, pi for -x, -pi/2 for -z.
Atan2(dz, dx) ==
    CASE Sign(dz[1]) = 0 /\ Sign(dx[1]) >= 0 -> 0
      [] Sign(dz[1]) = 0 /\ Sign(dx[1]) < 0 -> PiMilli
      [] Sign(dx[1]) = 0 /\ Sign(dz[1]) > 0 -> PiMilli \div 2
      [] Sign(dx[1]) = 0 /\ Sign(dz[1]) < 0 -> 0 - (PiMilli \div 2)

\* _wrap_pi(a)
RECURSIVE WrapPi(_)
WrapPi(a) ==
    IF a > PiMilli THEN WrapPi(a - 2 * PiMilli)
    ELSE IF a < 0 - PiMilli THEN WrapPi(a + 2 * PiMilli)
    ELSE a

\* The loop of _moving_average: q is the window, s its running sum.
RECURSIVE MovingAverageLoop(_, _, _, _, _, _)
MovingAverageLoop(xs, w, i, q, s, out) ==
    IF i > Len(xs) THEN out
    ELSE LET q1 == Append(q, xs[i])
             s1 == s + xs[i]
             q2 == IF Len(q1) > w THEN Tail(q1) ELSE q1
             s2 == IF Len(q1) > w THEN s1 - Head(q1) ELSE s1
         IN MovingAverageLoop(xs, w, i + 1, q2, s2,
                              Append(out, Frac(s2, Len(q2))))

\* _moving_average(xs, w): xs itself for w <= 1, else the mean of the last
\* min(w, len(xs)) values up to each index.
MovingAverage(xs, w) ==
    IF xs = <<>> \/ w <= 1 THEN [k \in 1..Len(xs) |-> Whole(xs[k])]
    ELSE MovingAverageLoop(xs, Min(w, Len(xs)), 1, <<>>, 0, <<>>)

\* headings: the direction of each step between resampled points, for
\* i in range(1, len(pts)).
RECURSIVE HeadingsLoop(_, _, _)
HeadingsLoop(pts, i, headings) ==
    IF i >= Len(pts) THEN headings
    ELSE HeadingsLoop(pts, i + 1,
             Append(headings,
                    Atan2(FracSub(pts[i + 1][2], pts[i][2]),
                          FracSub(pts[i + 1][1], pts[i][1]))))

Headings(pts) == HeadingsLoop(pts, 1, <<>>)

\* curv = [0.0] * n; curv[i] = _wrap_pi(headings[i] - headings[i - 1]) for
\* i in range(1, len(headings)): built index by index, i = 0 .. n-1.
RECURSIVE CurvLoop(_, _, _, _)
CurvLoop(headings, n, i, curv) ==
    IF i >= n THEN curv
    ELSE CurvLoop(headings, n, i + 1,
             Append(curv, IF i >= 1 /\ i < Len(headings)
                          THEN WrapPi(headings[i + 1] - headings[i])
                          ELSE 0))

Curv(headings, n) == CurvLoop(headings, n, 0, <<>>)

\* Variant of Strong: a point at the threshold counts as strong,
\* abs(v) >= curvature_thresh.
StrongAtThreshold(curv_s, curvature_thresh) ==
    [k \in 1..Len(curv_s) |->
        FracLe(Whole(curvature_thresh), FracAbs(curv_s[k]))]

\* strong = [abs(v) > curvature_thresh for v in curv_s]
Strong(curv_s, curvature_thresh) ==
    [k \in 1..Len(curv_s) |->
        FracLt(Whole(curvature_thresh), FracAbs(curv_s[k]))]

\* The inner while loop of corner_segments from j = start: it ends with
\* j = n, or by break at the weak point j that makes gaps exceed max_gap.
RECURSIVE CornerRun(_, _, _, _, _)
CornerRun(strong, curv_s, n, max_gap, st) ==
    IF st.j >= n THEN st
    ELSE IF strong[st.j + 1]
    THEN CornerRun(strong, curv_s, n, max_gap,
             [st EXCEPT !.gaps = 0,
                        !.signed_sum = FracAdd(@, curv_s[st.j + 1]),
                        !.abs_sum = FracAdd(@, FracAbs(curv_s[st.j + 1])),
                        !.count = @ + 1,
                        !.j = @ + 1])
    ELSE IF st.gaps + 1 > max_gap THEN [st EXCEPT !.gaps = @ + 1]
    ELSE CornerRun(strong, curv_s, n, max_gap,
             [st EXCEPT !.gaps = @ + 1, !.j = @ + 1])

\* CornerSegment(start, end, direction, avg_abs)
CornerSegment(start, end, signed_sum, abs_sum, count) ==
    [start_idx |-> start, end_idx |-> end,
     direction |-> Sign(signed_sum[1]),
     strength |-> Frac(abs_sum[1], abs_sum[2] * count)]

\* The outer while loop of corner_segments from index i.
RECURSIVE CornerScan(_, _, _, _, _, _, _)
CornerScan(strong, curv_s, n, min_len, max_gap, i, segs) ==
    IF i >= n THEN segs
    ELSE IF ~strong[i + 1]
    THEN CornerScan(strong, curv_s, n, min_len, max_gap, i + 1, segs)
    ELSE LET r == CornerRun(strong, curv_s, n, max_gap,
                      [j |-> i, gaps |-> 0, signed_sum |-> Whole(0),
                       abs_sum |-> Whole(0), count |-> 0])
             end == Min(n - 1, r.j - r.gaps - 1)
             length == end - i + 1
         IN CornerScan(strong, curv_s, n, min_len, max_gap, r.j,
                IF length >= min_len /\ r.count > 0
                THEN Append(segs, CornerSegment(i, end, r.signed_sum,
                                                r.abs_sum, r.count))
                ELSE segs)

\* corner_segments from line 384 on: the curvature of the resampled points,
\* smoothed, and the scan for runs of strong points.
CornersOfCurvature(curv_s, n, curvature_thresh, min_len, max_gap) ==
    CornerScan(Strong(curv_s, curvature_thresh), curv_s, n, min_len, max_gap,
               0, <<>>)

\* corner_segments from line 381 on, given what the resampling did.
CornersOfPoints(pts, n, curvature_thresh, min_len, max_gap, smooth_w) ==
    IF pts.kind = "raise" THEN pts
    ELSE IF Len(pts.val) < MinLapPoints THEN Return(<<>>)
    ELSE Return(CornersOfCurvature(
             MovingAverage(Curv(Headings(pts.val), n), smooth_w),
             n, curvature_thresh, min_len, max_gap))

\* corner_segments(ref, n, curvature_thresh, min_len, max_gap, smooth_w)
CornerSegments(ref, n, curvature_thresh, min_len, max_gap, smooth_w) ==
    IF \/ ref.points_xz = <<>> \/ ref.cum_dist_m = <<>>
       \/ Len(ref.points_xz) < MinLapPoints
    THEN Return(<<>>)
    ELSE CornersOfPoints(
             ResampleByDistance(ref.points_xz, ref.cum_dist_m, n),
             n, curvature_thresh, min_len, max_gap, smooth_w)

\* The defaults of corner_coaching_rows: brake_thr = 10.0,
\* throttle_thr = 20.0, approach_pad = 12, exit_pad = 12, hold = 3.
DefaultBrakeThr == 10
DefaultThrottleThr == 20
DefaultApproachPad == 12
DefaultExitPad == 12
DefaultHold == 3

\* max(0, min(n - 1, i))
ClampIdx(i, n) == Max(0, Min(n - 1, i))

\* Variant of FirstCrossingLoop: only the bin at i is tested, not the hold
\* bins from i on.
RECURSIVE FirstCrossingLoopNoHold(_, _, _, _, _)
FirstCrossingLoopNoHold(xs, i, i1, thr, hold) ==
    IF i > i1 THEN None
    ELSE IF hold <= 0 \/ ~FracLt(xs[i + 1], Whole(thr))
    THEN Some(i)
    ELSE FirstCrossingLoopNoHold(xs, i + 1, i1, thr, hold)

\* The scan of _first_threshold_crossing from index i up to i1.
RECURSIVE FirstCrossingLoop(_, _, _, _, _)
FirstCrossingLoop(xs, i, i1, thr, hold) ==
    IF i > i1 THEN None
    ELSE IF \A k \in 0..(hold - 1) :
                i + k < Len(xs) /\ ~FracLt(xs[i + k + 1], Whole(thr))
    THEN Some(i)
    ELSE FirstCrossingLoop(xs, i + 1, i1, thr, hold)

\* _first_threshold_crossing(xs, i0, i1, thr, hold)
FirstThresholdCrossing(xs, i0, i1, thr, hold) ==
    IF xs = <<>> THEN None
    ELSE LET a == ClampIdx(i0, Len(xs))
             b == ClampIdx(i1, Len(xs))
         IN IF b < a THEN None ELSE FirstCrossingLoop(xs, a, b, thr, hold)

\* Variant of InsertByLoss: row goes in front of the rows of equal loss.
RECURSIVE InsertByLossUnstable(_, _)
InsertByLossUnstable(sorted, row) ==
    IF sorted = <<>> THEN <<row>>
    ELSE IF FracLt(row.loss_ms, Head(sorted).loss_ms)
    THEN <<Head(sorted)>> \o InsertByLossUnstable(Tail(sorted), row)
    ELSE <<row>> \o sorted

\* One step of list.sort(key=loss, reverse=True), which is stable: row goes
\* behind every row whose loss is greater than or equal to its own.
RECURSIVE InsertByLoss(_, _)
InsertByLoss(sorted, row) ==
    IF sorted = <<>> THEN <<row>>
    ELSE IF FracLe(row.loss_ms, Head(sorted).loss_ms)
    THEN <<Head(sorted)>> \o InsertByLoss(Tail(sorted), row)
    ELSE <<row>> \o sorted

\* rows.sort(key=lambda r: r["loss_ms"], reverse=True)
RECURSIVE SortByLossLoop(_, _)
SortByLossLoop(rows, sorted) ==
    IF rows = <<>> THEN sorted
    ELSE SortByLossLoop(Tail(rows), InsertByLoss(sorted, Head(rows)))

SortByLoss(rows) == SortByLossLoop(rows, <<>>)

\* Variant of TimeLossLoop: the loss is the profile at the corner's exit
\* alone, dt[b].
RECURSIVE TimeLossLoopExitOnly(_, _, _, _)
TimeLossLoopExitOnly(corners, dt, n, out) ==
    IF corners = <<>> THEN out
    ELSE LET seg == Head(corners)
             a == ClampIdx(seg.start_idx, n)
             b == ClampIdx(seg.end_idx, n)
         IN TimeLossLoopExitOnly(Tail(corners), dt, n,
                IF b > a
                THEN Append(out, [seg |-> seg, loss_ms |-> dt[b + 1]])
                ELSE out)

\* The loop of corner_time_losses_ms over the corners.
RECURSIVE TimeLossLoop(_, _, _, _)
TimeLossLoop(corners, dt, n, out) ==
    IF corners = <<>> THEN out
    ELSE LET seg == Head(corners)
             a == ClampIdx(seg.start_idx, n)
             b == ClampIdx(seg.end_idx, n)
         IN TimeLossLoop(Tail(corners), dt, n,
                IF b > a
                THEN Append(out, [seg |-> seg,
                                  loss_ms |-> FracSub(dt[b + 1], dt[a + 1])])
                ELSE out)

\* corner_time_losses_ms(last, ref, n)
CornerTimeLossesMs(last, ref, n) ==
    LET dt == DeltaProfileTimeMs(last, ref, n)
    IN IF dt.kind = "raise" THEN dt
       ELSE IF dt.val = None \/ Val(dt.val) = <<>> \/ Len(Val(dt.val)) # n
       THEN Return(None)
       ELSE LET corners == CornerSegments(ref, n, DefaultCurvatureThresh,
                               DefaultMinLen, DefaultMaxGap, DefaultSmoothW)
            IN IF corners.kind = "raise" THEN corners
               ELSE IF corners.val = <<>> THEN Return(Some(<<>>))
               ELSE Return(Some(SortByLoss(
                        TimeLossLoop(corners.val, Val(dt.val), n, <<>>))))

\* min(xs[a:b + 1]) for 0 <= a <= b < len(xs)
RECURSIVE MinOfSlice(_, _, _)
MinOfSlice(xs, a, b) ==
    IF a = b THEN xs[a + 1]
    ELSE LET m == MinOfSlice(xs, a + 1, b)
         IN IF FracLe(xs[a + 1], m) THEN xs[a + 1] ELSE m

\* idx_to_m(i) = total_m * (i / (n - 1))
IdxToM(i, total_m, n) == Frac(total_m * i, n - 1)

\* idx_to_m(last_i) - idx_to_m(ref_i) if both are not None else None
OnsetDelta(last_i, ref_i, total_m, n) ==
    IF ref_i # None /\ last_i # None
    THEN Some(FracSub(IdxToM(Val(last_i), total_m, n),
                      IdxToM(Val(ref_i), total_m, n)))
    ELSE None

\* The loop of corner_coaching_rows over the corners; r holds the six
\* resampled series.
RECURSIVE CoachingLoop(_, _, _, _, _, _)
CoachingLoop(corners, dt, r, total_m, n, rows) ==
    IF corners = <<>> THEN rows
    ELSE LET seg == Head(corners)
             a == ClampIdx(seg.start_idx, n)
             b == ClampIdx(seg.end_idx, n)
             ref_br_i == FirstThresholdCrossing(r.ref_br,
                             Max(0, a - DefaultApproachPad), b,
                             DefaultBrakeThr, DefaultHold)
             last_br_i == FirstThresholdCrossing(r.last_br,
                              Max(0, a - DefaultApproachPad), b,
                              DefaultBrakeThr, DefaultHold)
             ref_th_i == FirstThresholdCrossing(r.ref_th, a,
                             Min(n - 1, b + DefaultExitPad),
                             DefaultThrottleThr, DefaultHold)
             last_th_i == FirstThresholdCrossing(r.last_th, a,
                              Min(n - 1, b + DefaultExitPad),
                              DefaultThrottleThr, DefaultHold)
         IN CoachingLoop(Tail(corners), dt, r, total_m, n,
                IF b <= a THEN rows
                ELSE Append(rows,
                    [seg |-> seg,
                     loss_ms |-> FracSub(dt[b + 1], dt[a + 1]),
                     brake_start_delta_m |->
                         OnsetDelta(last_br_i, ref_br_i, total_m, n),
                     throttle_on_delta_m |->
                         OnsetDelta(last_th_i, ref_th_i, total_m, n),
                     min_speed_delta_kmh |->
                         FracSub(MinOfSlice(r.last_sp, a, b),
                                 MinOfSlice(r.ref_sp, a, b)),
                     exit_speed_delta_kmh |->
                         FracSub(r.last_sp[b + 1], r.ref_sp[b + 1])]))

\* corner_coaching_rows(last, ref, n) with the default thresholds and pads.
\* Where the corners are not empty n is at least 10 and the delta profile
\* has already resampled both laps, so idx_to_m and the six resampling calls
\* return.
CornerCoachingRows(last, ref, n) ==
    LET dt == DeltaProfileTimeMs(last, ref, n)
    IN IF dt.kind = "raise" THEN dt
       ELSE IF dt.val = None \/ Val(dt.val) = <<>> \/ Len(Val(dt.val)) # n
       THEN Return(None)
       ELSE LET corners == CornerSegments(ref, n, DefaultCurvatureThresh,
                               DefaultMinLen, DefaultMaxGap, DefaultSmoothW)
            IN IF corners.kind = "raise" THEN corners
               ELSE IF corners.val = <<>> THEN Return(Some(<<>>))
               ELSE LET last_brake == ValidField(last.samples, "brake")
                        ref_brake == ValidField(ref.samples, "brake")
                        lc == last.cum_dist_m
                        rc == ref.cum_dist_m
                        r == [last_br |->
                                  ResampleSeriesByDistance(last_brake, lc, n),
                              last_th |-> ResampleSeriesByDistance(
                                  ValidField(last.samples, "throttle"), lc, n),
                              last_sp |-> ResampleSeriesByDistance(
                                  ValidField(last.samples, "speed_kmh"), lc, n),
                              ref_br |->
                                  ResampleSeriesByDistance(ref_brake, rc, n),
                              ref_th |-> ResampleSeriesByDistance(
                                  ValidField(ref.samples, "throttle"), rc, n),
                              ref_sp |-> ResampleSeriesByDistance(
                                  ValidField(ref.samples, "speed_kmh"), rc, n)]
                        total_m == rc[Len(rc)]
                    IN IF \/ Len(last_brake) # Len(lc)
                          \/ Len(ref_brake) # Len(rc)
                       THEN Return(None)
                       ELSE IF \E f \in DOMAIN r : r[f].kind = "raise"
                       THEN Raise("ZeroDivisionError")
                       ELSE IF \E f \in DOMAIN r : r[f].val = <<>>
                       THEN Return(None)
                       ELSE IF total_m <= 0 THEN Return(None)
                       ELSE Return(Some(SortByLoss(
                                CoachingLoop(corners.val, Val(dt.val),
                                    [f \in DOMAIN r |-> r[f].val],
                                    total_m, n, <<>>))))

\* --------------------------------------------------- analysis inputs

\* The unit steps of an axis-parallel path: heading h in quarter turns.
StepOf(h) ==
    CASE h % 4 = 0 -> <<1, 0>>
      [] h % 4 = 1 -> <<0, 1>>
      [] h % 4 = 2 -> <<-1, 0>>
      [] h % 4 = 3 -> <<0, -1>>

\* The points of a path of unit steps from p with heading h: after each
\* step the path takes the next of the quarter turns (1 left, -1 right,
\* 0 none).
RECURSIVE PathPoints(_, _, _, _)
PathPoints(p, h, turns, out) ==
    IF turns = <<>> THEN out
    ELSE LET q == <<p[1] + StepOf(h)[1], p[2] + StepOf(h)[2]>>
         IN PathPoints(q, h + Head(turns) + 4, Tail(turns), Append(out, q))

\* Where the paths start: far enough from the origin that no point of a
\* path has both coordinates zero.
PathStart == <<20, 20>>

\* A TelemetrySample of a lap: the k-th point (k = 0, 1, ...) is passed at
\* time pace * k; speed, throttle and brake vary along the lap.
AnalysisSample(k, p, pace) ==
    [t |-> pace * k, lap |-> 1, x |-> p[1], z |-> p[2],
     speed_kmh |-> 60 + 10 * (k % 3),
     throttle |-> IF k % 4 = 0 THEN 0 ELSE 100,
     brake |-> IF k % 4 = 0 THEN 50 ELSE 0]

\* The LapData that _finalize_current_lap builds from the samples taken at
\* the given points.
LapOf(points, pace) ==
    [lap_num |-> 1,
     samples |-> [k \in 1..Len(points) |->
                     AnalysisSample(k - 1, points[k], pace)],
     points_xz |-> points,
     cum_dist_m |-> Cumdist(points),
     lap_time_ms |-> 1000 * pace * Len(points),
     start_gate |-> MakeStartGate(points)]

\* A lap along the path that takes turns[k] at its k-th point after the
\* start and ends one step after the last turn: 10 points for 8 turns.
PathLap(turns, pace) ==
    LapOf(PathPoints(PathStart, 0, turns \o <<0>>, <<PathStart>>), pace)

\* A lap with one left turn, at its third point.
LapCorner == PathLap(<<0, 1, 0, 0, 0, 0, 0, 0>>, 1)

\* The same path driven at half the pace.
LapCornerSlow == PathLap(<<0, 1, 0, 0, 0, 0, 0, 0>>, 2)

\* A lap with a left turn followed by a right turn.
LapChicane == PathLap(<<0, 1, -1, 0, 0, 0, 0, 0>>, 1)

\* A lap with two left turns far enough apart to be two corners at n = 19,
\* and the same path driven at half the pace.
LapTwoCorners == PathLap(<<1, 0, 0, 0, 0, 1, 0, 0>>, 1)

LapTwoCornersSlow == PathLap(<<1, 0, 0, 0, 0, 1, 0, 0>>, 2)

\* A perfectly straight lap.
LapStraight == PathLap(<<0, 0, 0, 0, 0, 0, 0, 0>>, 1)

\* A lap with few points.
LapShort == LapOf(<<PathStart, <<21, 20>>, <<22, 20>> >>, 1)

\* A lap of zero total distance: the car stood still.
LapStill == LapOf([k \in 1..MinLapPoints |-> PathStart], 1)

\* A lap whose count of coordinate-valid samples differs from the length
\* of its distance array.
LapMismatch == [LapCorner EXCEPT !.samples = Tail(@)]

\* A lap with points and neither distances nor samples.
LapNoSamples ==
    [LapShort EXCEPT !.samples = <<>>, !.cum_dist_m = <<>>]

AnalysisLaps ==
    {LapCorner, LapCornerSlow, LapTwoCorners, LapTwoCornersSlow, LapStraight,
     LapShort, LapStill, LapMismatch, LapNoSamples}

\* The requested n: none, one, two, as many as the lap has points, and
\* twice as many less one (a resampled point at every half step).
AnalysisNs == {0, 1, 2, MinLapPoints, 2 * MinLapPoints - 1}

\* The parameters of corner_segments explored beside the defaults.
CornerParams ==
    {[curvature_thresh |-> ct, min_len |-> ml, max_gap |-> mg,
      smooth_w |-> sw] :
        ct \in {0, DefaultCurvatureThresh},
        ml \in {0, 1, 2, DefaultMinLen}, mg \in 0..DefaultMaxGap,
        sw \in {1, DefaultSmoothW}}

AnalysisCalls ==
    {[fn |-> f, last |-> l, ref |-> r, n |-> n] :
        f \in {"delta_profile_time_ms", "delta_profile_speed",
               "corner_time_losses_ms", "corner_coaching_rows"},
        l \in AnalysisLaps, r \in AnalysisLaps, n \in AnalysisNs}
    \cup
    {[fn |-> "sector_times_ms", lap |-> l] : l \in AnalysisLaps}
    \cup
    {[fn |-> "corner_segments", ref |-> r, n |-> n, par |-> p, calls |-> 0] :
        r \in AnalysisLaps, n \in AnalysisNs, p \in CornerParams}

\* A call of delta_profile_time_ms with the arguments of an_call.
DoDeltaProfileTimeMs ==
    /\ an_call.fn = "delta_profile_time_ms"
    /\ an_ret.kind = "none"
    /\ an_ret' = DeltaProfileTimeMs(an_call.last, an_call.ref, an_call.n)
    /\ UNCHANGED an_call
    /\ AnalysisFrame

\* A call of delta_profile_speed.
DoDeltaProfileSpeed ==
    /\ an_call.fn = "delta_profile_speed"
    /\ an_ret.kind = "none"
    /\ an_ret' = DeltaProfileSpeed(an_call.last, an_call.ref, an_call.n)
    /\ UNCHANGED an_call
    /\ AnalysisFrame

\* A call of sector_times_ms.
DoSectorTimesMs ==
    /\ an_call.fn = "sector_times_ms"
    /\ an_ret.kind = "none"
    /\ an_ret' = SectorTimesMs(an_call.lap)
    /\ UNCHANGED an_call
    /\ AnalysisFrame

\* Bound: calls of corner_segments with the same arguments.
MaxCornerCalls == 2

\* A call of corner_segments; it may be repeated with the same arguments.
DoCornerSegments ==
    /\ an_call.fn = "corner_segments"
    /\ an_call.calls < MaxCornerCalls
    /\ an_ret' = CornerSegments(an_call.ref, an_call.n,
                     an_call.par.curvature_thresh, an_call.par.min_len,
                     an_call.par.max_gap, an_call.par.smooth_w)
    /\ an_call' = [an_call EXCEPT !.calls = @ + 1]
    /\ AnalysisFrame

\* A call of corner_time_losses_ms.
DoCornerTimeLossesMs ==
    /\ an_call.fn = "corner_time_losses_ms"
    /\ an_ret.kind = "none"
    /\ an_ret' = CornerTimeLossesMs(an_call.last, an_call.ref, an_call.n)
    /\ UNCHANGED an_call
    /\ AnalysisFrame

\* A call of corner_coaching_rows.
DoCornerCoachingRows ==
    /\ an_call.fn = "corner_coaching_rows"
    /\ an_ret.kind = "none"
    /\ an_ret' = CornerCoachingRows(an_call.last, an_call.ref, an_call.n)
    /\ UNCHANGED an_call
    /\ AnalysisFrame

InitAnalysis ==
    /\ SessInit /\ on_lap_finalized = TRUE
    /\ TransportInit /\ playstation_ip = Auto
    /\ ThreadInit
    /\ an_call \in AnalysisCalls
    /\ an_ret = [kind |-> "none"]
    /\ AppIdle

NextAnalysis ==
    \/ DoDeltaProfileTimeMs
    \/ DoDeltaProfileSpeed
    \/ DoSectorTimesMs
    \/ DoCornerSegments
    \/ DoCornerTimeLossesMs
    \/ DoCornerCoachingRows

SpecAnalysis == InitAnalysis /\ [][NextAnalysis]_vars

\* ------------------------------------------------- corner detection

\* The turns a path may take at each of its 8 inner points.
Turns == {0, 1}

\* Every lap of 10 points along an axis-parallel path of unit steps.  With
\* n = 10 the resampled points are the points of the lap, and with
\* smooth_w = 1 the strong points are exactly the points where it turns.
PathLaps == {PathLap(t, 1) : t \in [1..(MinLapPoints - 2) -> Turns]}

CornerCalls ==
    {[fn |-> "corner_segments", ref |-> r, n |-> MinLapPoints, par |-> p,
      calls |-> 0] : r \in PathLaps, p \in CornerParams}
    \cup
    {[fn |-> "corner_segments", ref |-> r, n |-> n, par |-> p, calls |-> 0] :
        r \in {LapChicane, LapStraight, LapShort, LapStill}, n \in AnalysisNs,
        p \in CornerParams}

InitCorners ==
    /\ SessInit /\ on_lap_finalized = TRUE
    /\ TransportInit /\ playstation_ip = Auto
    /\ ThreadInit
    /\ an_call \in CornerCalls
    /\ an_ret = [kind |-> "none"]
    /\ AppIdle

NextCorners == DoCornerSegments

SpecCorners == InitCorners /\ [][NextCorners]_vars

\* ------------------------------------------------- threshold crossing

\* Bound: bins of the series searched.
MaxBins == 4
\* The threshold of the calls explored; the bins are below it, at it or
\* above it.
CrossingThr == 1

CrossingCalls ==
    {[fn |-> "_first_threshold_crossing", xs |-> xs, i0 |-> i0, i1 |-> i1,
      thr |-> CrossingThr, hold |-> hold] :
        xs \in SeqsUpTo({Whole(0), Whole(1), Frac(3, 2)}, MaxBins),
        i0 \in (0 - 1)..(MaxBins + 1), i1 \in (0 - 1)..(MaxBins + 1),
        hold \in 0..3}

DoFirstThresholdCrossing ==
    /\ an_call.fn = "_first_threshold_crossing"
    /\ an_ret.kind = "none"
    /\ an_ret' = Return(FirstThresholdCrossing(an_call.xs, an_call.i0,
                                               an_call.i1, an_call.thr,
                                               an_call.hold))
    /\ UNCHANGED an_call
    /\ AnalysisFrame

InitCrossing ==
    /\ SessInit /\ on_lap_finalized = TRUE
    /\ TransportInit /\ playstation_ip = Auto
    /\ ThreadInit
    /\ an_call \in CrossingCalls
    /\ an_ret = [kind |-> "none"]
    /\ AppIdle

NextCrossing == DoFirstThresholdCrossing

\* _first_threshold_crossing applied to every series, window and hold.
SpecCrossing == InitCrossing /\ [][NextCrossing]_vars

\* ------------------------------------------------------- event engine

\* The EngineerEvent of a completed lap, by the parts of its id
\* f"lap:{lap_completed}:{state.last_lap_ms}".
LapEvent(lap_completed, last_lap_ms) ==
    [kind |-> "lap", lap_completed |-> lap_completed,
     last_lap_ms |-> last_lap_ms]

\* The EngineerEvent of a fuel warning, id f"fuel:{bucket}".
FuelEvent(bucket) == [kind |-> "fuel", bucket |-> bucket]

\* The EventEngine as one value.
Engine ==
    [prev_last_lap_ms |-> prev_last_lap_ms, prev_bucket |-> prev_bucket]

\* consume(): the lap-complete part; the engine after it and its events.
ConsumeLap(e, state) ==
    IF state.connected /\ state.lap > 0
    THEN [e |-> [e EXCEPT !.prev_last_lap_ms = state.last_lap_ms],
          events |->
              IF state.last_lap_ms /= 0
                 /\ state.last_lap_ms /= e.prev_last_lap_ms
              THEN <<LapEvent(Max(state.lap - 1, 0), state.last_lap_ms)>>
              ELSE <<>>]
    ELSE [e |-> e, events |-> <<>>]

\* consume(): bucket = 100, lowered to 10, 25 or 50 by pct.
FuelBucket(pct) ==
    IF FracLe(pct, Whole(10)) THEN 10
    ELSE IF FracLe(pct, Whole(25)) THEN 25
    ELSE IF FracLe(pct, Whole(50)) THEN 50
    ELSE 100

\* Variant of ConsumeFuel: every change of bucket is reported, a rise too.
ConsumeFuelAnyChange(e, state) ==
    IF state.fuel_capacity > 0
    THEN LET bucket == FuelBucket(state.fuel_pct)
         IN IF e.prev_bucket = None
            THEN [e |-> [e EXCEPT !.prev_bucket = Some(bucket)],
                  events |-> <<>>]
            ELSE IF bucket /= Val(e.prev_bucket)
            THEN [e |-> [e EXCEPT !.prev_bucket = Some(bucket)],
                  events |-> <<FuelEvent(bucket)>>]
            ELSE [e |-> e, events |-> <<>>]
    ELSE [e |-> e, events |-> <<>>]

\* consume(): the fuel-warning part; the engine after it and its events.
ConsumeFuel(e, state) ==
    IF state.fuel_capacity > 0
    THEN LET bucket == FuelBucket(state.fuel_pct)
         IN IF e.prev_bucket = None
            THEN [e |-> [e EXCEPT !.prev_bucket = Some(bucket)],
                  events |-> <<>>]
            ELSE IF bucket /= Val(e.prev_bucket)
            THEN [e |-> [e EXCEPT !.prev_bucket = Some(bucket)],
                  events |->
                      IF bucket < Val(e.prev_bucket)
                      THEN <<FuelEvent(bucket)>> ELSE <<>>]
            ELSE [e |-> e, events |-> <<>>]
    ELSE [e |-> e, events |-> <<>>]

\* EventEngine.consume(state)
Consume(e, state) ==
    LET lap == ConsumeLap(e, state)
        fuel == ConsumeFuel(lap.e, state)
    IN [e |-> fuel.e, events |-> lap.events \o fuel.events]

SetEngine(r) ==
    /\ prev_last_lap_ms' = r.e.prev_last_lap_ms
    /\ prev_bucket' = r.e.prev_bucket
    /\ events' = r.events

\* The RaceStates consumed: connected or not, on the grid (lap 0) or in lap
\* 2, with no lap time (0), the game's "no time" value (-1) or a lap time,
\* without fuel data (capacity 0) or with the fuel at, just above and
\* between the bucket limits.
EventStates ==
    {[connected |-> c, lap |-> lap, last_lap_ms |-> ms, fuel_capacity |-> 0,
      fuel_pct |-> Whole(0)] :
        c \in BOOLEAN, lap \in {0, 2}, ms \in {0 - 1, 0, 30500, 31200}}
    \cup
    {[connected |-> c, lap |-> lap, last_lap_ms |-> ms, fuel_capacity |-> 100,
      fuel_pct |-> pct] :
        c \in BOOLEAN, lap \in {0, 2}, ms \in {0 - 1, 0, 30500, 31200},
        pct \in {Whole(10), Frac(21, 2), Whole(25), Whole(50), Whole(51)}}

\* self.events.consume(self.state) with the RaceState the tick has filled.
DoConsume(state) ==
    /\ race_state' = state
    /\ SetEngine(Consume(Engine, state))
    /\ UNCHANGED <<samples_maxlen, fed>>
    /\ UNCHANGED <<session_vars, transport_vars, thread_vars, analysis_vars>>

InitEvents ==
    /\ SessInit /\ on_lap_finalized = TRUE
    /\ TransportInit /\ playstation_ip = Auto
    /\ ThreadInit /\ AnalysisIdle /\ AppIdle

NextEvents == \E state \in EventStates : DoConsume(state)

\* An EventEngine fed with RaceStates; every step is a call of consume().
SpecEvents == InitEvents /\ [][NextEvents]_vars

\* ------------------------------------------------------- the tick driver

\* Bound: ticks that reach update_from_snapshot.
MaxTicks == 3

\* The GTData a packet decodes to, by package id: 0 is GTData(), whose
\* in_race is False; packet 1 is taken at the start line and packet 2 at the
\* far point of lap 1, both in a race with the throttle open and 60 of 100
\* litres of fuel.
Telemetry(package_id) ==
    IF package_id = 0
    THEN [in_race |-> FALSE, paused |-> FALSE, lap |-> 0, last_lap_ms |-> 0,
          pos |-> PosZero, time_on_track_s |-> 0, throttle |-> 0,
          speed_kmh |-> 0, fuel |-> 0, fuel_capacity |-> 0]
    ELSE [in_race |-> TRUE, paused |-> FALSE, lap |-> 1, last_lap_ms |-> 0,
          pos |-> Track(1, package_id - 1), time_on_track_s |-> 3,
          throttle |-> 100, speed_kmh |-> 50, fuel |-> 60,
          fuel_capacity |-> 100]

\* GT7Communication.snapshot(): the entries the tick reads, taken from
\* self._last_gtdata and the counters; connected is is_connected() and dt the
\* time since the previous tick.
Snapshot(connected, dt) ==
    LET d == Telemetry(last_gtdata)
    IN [connected |-> connected,
        telemetry_seq |-> telemetry_seq,
        package_id |-> last_gtdata,
        time_on_track_s |-> Some(d.time_on_track_s),
        lap |-> d.lap, last_lap_ms |-> d.last_lap_ms,
        x |-> d.pos[1], z |-> d.pos[2],
        in_race |-> d.in_race, paused |-> d.paused,
        throttle |-> d.throttle, brake |-> 0, speed_kmh |-> d.speed_kmh,
        fuel |-> d.fuel, fuel_capacity |-> d.fuel_capacity,
        dt |-> dt]

\* RaceState.update(snap): the fields consume() reads.
RaceStateUpdate(snap) ==
    [connected |-> snap.connected,
     lap |-> snap.lap,
     last_lap_ms |-> snap.last_lap_ms,
     fuel_capacity |-> snap.fuel_capacity,
     fuel_pct |-> IF snap.fuel_capacity > 0
                  THEN Frac(snap.fuel * 100, snap.fuel_capacity)
                  ELSE Whole(0)]

\* _tick: self.session.update_from_snapshot(snap)
TickIngest(snap) ==
    /\ SetSess(UpdateFromSnapshot(AtCall(Sess), snap))
    /\ fed' = Append(fed, snap.telemetry_seq)

\* AppController._tick, run by the 16 ms timer on the GUI thread: dt tenths
\* of a second (to the nearest tenth) after the previous tick it takes the
\* latest snapshot, returns unless in_race, and updates the RaceState, the
\* session and the event engine.  is_connected() compares the age of the
\* last packet with 1 s, so it is either value once a packet was received.
\* The window calls and the _tick_i counter, which only paces them, are left
\* out.
Tick(dt) ==
    /\ Len(fed) < MaxTicks
    /\ \E connected \in (IF last_rx_time > 0 THEN BOOLEAN ELSE {FALSE}) :
          LET snap == Snapshot(connected, dt)
          IN IF ~snap.in_race
             THEN UNCHANGED <<session_vars, app_vars>>
             ELSE /\ race_state' = RaceStateUpdate(snap)
                  /\ TickIngest(snap)
                  /\ SetEngine(Consume(Engine, RaceStateUpdate(snap)))
                  /\ UNCHANGED samples_maxlen
    /\ UNCHANGED <<transport_vars, thread_vars, analysis_vars>>

InitTick ==
    /\ SessInit /\ on_lap_finalized = TRUE
    /\ TransportInit /\ playstation_ip = ConsoleIp
    /\ ThreadInit /\ AnalysisIdle /\ AppIdle

NextTick ==
    \/ RunLoop
    \/ \E d \in Datagrams : StreamRecv(d)
    \/ StreamTimeout
    \/ \E dt \in {0, 1} : Tick(dt)

\* The worker streaming from a fixed peer while the timer ticks.
SpecTick == InitTick /\ [][NextTick]_vars

\* ------------------------------------------------------- apply settings

\* The buffer sizes the settings dialog sends.
BufferSizes == {DefaultMaxSamples, 18000}

\* TelemetrySession(max_samples=new_buf): the fields after __init__, no hook.
NewSession ==
    [completed_laps |-> <<>>,
     current_lap_samples |-> <<>>,
     last_lap_num |-> None,
     last_time_on_track_s |-> None,
     session_id |-> 0,
     reference_idx |-> None,
     reference_locked |-> FALSE,
     last_pos |-> None,
     last_moving_t |-> None,
     on_lap_finalized |-> FALSE,
     cb_calls |-> <<>>,
     hook_raises |-> FALSE,
     cb_seen |-> None,
     raised |-> FALSE]

\* TelemetrySession.reference_info()["lap_num"]
ReferenceInfoLapNum(s) ==
    LET ref == ReferenceLap(s).ret
    IN IF ref = None THEN None ELSE Some(Val(ref).lap_num)

\* _on_apply_settings, the branch taken when the buffer size changes: a new
\* session gets the old hook, the old reference lap number selected by
\* set_reference_by_lap_num, and the old lock.
RebuildSession(s) ==
    LET old_cb == s.on_lap_finalized
        locked == s.reference_locked
        ref == ReferenceInfoLapNum(s)
        s1 == [NewSession EXCEPT !.on_lap_finalized = old_cb,
                                 !.hook_raises = s.hook_raises]
        s2 == IF ref /= None THEN SetReferenceByLapNum(s1, Val(ref)).s ELSE s1
    IN LockReference(s2, locked)

\* AppController._on_apply_settings(s) with buffer_samples = new_buf and
\* research_enabled = enabled: the session is rebuilt when the size differs,
\* and the hook is armed or disarmed by the research setting.  The research
\* configuration and the window refreshes are left out.
ApplySettings(new_buf, enabled) ==
    /\ LET s1 == IF samples_maxlen /= new_buf
                 THEN RebuildSession(AtCall(Sess))
                 ELSE AtCall(Sess)
       IN SetSess([s1 EXCEPT !.on_lap_finalized = enabled])
    /\ samples_maxlen' = new_buf
    /\ UNCHANGED <<race_state, prev_last_lap_ms, prev_bucket, events, fed>>
    /\ UNCHANGED <<transport_vars, thread_vars, analysis_vars>>

NextSettings ==
    \/ \E snap \in DriveSnaps : DoUpdate(snap)
    \/ \E locked \in BOOLEAN : DoLockReference(locked)
    \/ \E lap_num \in 1..MaxLapNum : DoSetReferenceByLapNum(lap_num)
    \/ \E new_buf \in BufferSizes, enabled \in BOOLEAN :
           ApplySettings(new_buf, enabled)

\* A session fed by a car driving laps while the user locks and selects the
\* reference and applies settings.
SpecSettings == Init /\ [][NextSettings]_vars

\* -------------------------------------------------------------- claims

\* The step is update_from_snapshot(snap).  The first three conjuncts follow
\* from the fourth and only spare its evaluation for most snapshots.
Ingests(snap) ==
    /\ last_pos' = Some(<<snap.x, snap.z>>)
    /\ last_lap_num' = Some(snap.lap)
    /\ last_time_on_track_s' =
           (IF snap.time_on_track_s = None
            THEN last_time_on_track_s ELSE snap.time_on_track_s)
    /\ DoUpdate(snap)

\* The step appended one lap to the completed laps.
LapFinalized ==
    /\ Len(completed_laps') = Len(completed_laps) + 1
    /\ SubSeq(completed_laps', 1, Len(completed_laps)) = completed_laps

NewestLap(laps) == laps[Len(laps)]

\* The number of buffered samples whose coordinates are valid.
ValidCount(samples) ==
    Cardinality({i \in 1..Len(samples) : samples[i].x /= 0 \/ samples[i].z /= 0})

\* What reference_lap() returns in the current state.
CurrentReference == ReferenceLap(Sess).ret

\* lap is the first of the laps with the smallest positive lap_time_ms.
IsFastest(lap, laps) ==
    \E i \in 1..Len(laps) :
        /\ laps[i] = lap
        /\ laps[i].lap_time_ms > 0
        /\ \A j \in 1..Len(laps) :
               laps[j].lap_time_ms > 0 =>
                   \/ laps[i].lap_time_ms < laps[j].lap_time_ms
                   \/ laps[i].lap_time_ms = laps[j].lap_time_ms /\ i <= j

\* The length of a lap's polyline.
RECURSIVE PathLength(_)
PathLength(points) ==
    IF Len(points) < 2 THEN 0
    ELSE Dist2d(points[1], points[2]) + PathLength(Tail(points))

\* The reference the auto policy must give: the fastest lap, or with no
\* positive lap time a lap of the greatest total distance.
IsAutoReference(ref, laps) ==
    /\ ref /= None
    /\ IF \E i \in 1..Len(laps) : laps[i].lap_time_ms > 0
       THEN IsFastest(Val(ref), laps)
       ELSE /\ \E i \in 1..Len(laps) : laps[i] = Val(ref)
            /\ \A j \in 1..Len(laps) :
                   PathLength(Val(ref).points_xz) >= PathLength(laps[j].points_xz)

\* C1: when a snapshot's lap number differs from the tracked lap number (and
\* the call does not reset the session), fewer than 10 buffered coordinate-
\* valid samples leave the completed laps as they were; 10 or more append
\* exactly one LapData, numbered as the lap that ended and timed by the
\* last_lap_ms of that very snapshot.
C1_LapBoundary ==
    [][\A snap \in AllSnapshots :
          (/\ last_lap_num /= None
           /\ Some(snap.lap) /= last_lap_num
           /\ session_id' = session_id
           /\ Ingests(snap))
          => IF ValidCount(current_lap_samples) < 10
             THEN completed_laps' = completed_laps
             ELSE /\ LapFinalized
                  /\ NewestLap(completed_laps').lap_num = Val(last_lap_num)
                  /\ NewestLap(completed_laps').lap_time_ms = snap.last_lap_ms]_vars

\* A lap 1 of 31200 ms has just been finalized by the first sample of lap 2.
C1_Witness ==
    /\ Len(completed_laps) = 1
    /\ completed_laps[1].lap_num = 1
    /\ completed_laps[1].lap_time_ms = 31200
    /\ last_lap_num = Some(2)
    /\ Len(current_lap_samples) = 1

\* C2: a time_on_track_s more than 2 s below the previous one clears the
\* completed laps, the buffer (which then holds at most the new sample) and
\* the reference, and raises session_id by one; otherwise session_id and the
\* completed laps are kept.
C2_SessionReset ==
    [][\A snap \in AllSnapshots :
          Ingests(snap) =>
              IF /\ snap.time_on_track_s /= None
                 /\ last_time_on_track_s /= None
                 /\ Val(last_time_on_track_s) - Val(snap.time_on_track_s) > 2
              THEN /\ session_id' = session_id + 1
                   /\ completed_laps' = <<>>
                   /\ reference_idx' = None
                   /\ CurrentReference' = None
                   /\ current_lap_samples' \in
                          {<<>>, <<Sample(snap)>>}
              ELSE /\ session_id' = session_id
                   /\ \/ completed_laps' = completed_laps
                      \/ LapFinalized]_vars

\* The session was reset by a snapshot 3 s back and buffers its sample.
C2_Witness ==
    /\ session_id = 1
    /\ last_time_on_track_s = Some(0)
    /\ completed_laps = <<>>
    /\ reference_idx = None
    /\ Len(current_lap_samples) = 1

\* C3: right after a lap is finalized with the reference unlocked,
\* reference_lap() is the first completed lap with the smallest positive
\* lap_time_ms, whatever was selected before; with no positive lap time it is
\* a completed lap of the greatest total distance.
C3_AutoReference ==
    [][(LapFinalized /\ ~reference_locked)
          => IsAutoReference(CurrentReference', completed_laps')]_vars

\* Laps of 31200, 30500 and 30800 ms are completed, the third just now,
\* and the 30500 ms lap is the reference.
C3_Witness ==
    /\ Len(completed_laps) = 3
    /\ completed_laps[1].lap_time_ms = 31200
    /\ completed_laps[2].lap_time_ms = 30500
    /\ completed_laps[3].lap_time_ms = 30800
    /\ ~reference_locked
    /\ CurrentReference = Some(completed_laps[2])
    /\ Len(current_lap_samples) = 1

\* C4: with a reference selected and locked, finalizing a lap leaves
\* reference_lap() unchanged; once unlocked, set_reference_best and the next
\* lap finalization make the fastest completed lap the reference.
C4_LockThenUnlock ==
    [][/\ (LapFinalized /\ reference_locked /\ reference_idx /= None)
              => /\ reference_idx' = reference_idx
                 /\ CurrentReference' = CurrentReference
       /\ (/\ ~reference_locked'
           /\ DoSetReferenceBest \/ LapFinalized
           /\ \E i \in 1..Len(completed_laps') :
                  completed_laps'[i].lap_time_ms > 0)
              => /\ CurrentReference' /= None
                 /\ IsFastest(Val(CurrentReference'), completed_laps')]_vars

\* A faster lap was finalized while the slower first lap was locked in.
C4_Witness ==
    /\ reference_locked
    /\ Len(completed_laps) = 2
    /\ completed_laps[1].lap_time_ms = 31200
    /\ completed_laps[2].lap_time_ms = 30500
    /\ reference_idx = Some(0)
    /\ Len(current_lap_samples) = 1

\* The step is some update_from_snapshot call.
UpdateStep == \E snap \in AllSnapshots : Ingests(snap)

\* C5 as stated: with a reference selected and locked, no update_from_snapshot
\* call clears the lock or changes reference_lap().
C5_LockSurvivesEveryUpdate ==
    [][(reference_locked /\ reference_idx /= None /\ UpdateStep)
          => /\ reference_locked'
             /\ CurrentReference' = CurrentReference]_vars

\* C5 as amended: with a reference selected and locked, an
\* update_from_snapshot call that does not reset the session keeps the lock
\* set and reference_lap() the same lap.
C5_LockSurvivesUpdates ==
    [][(/\ reference_locked
        /\ reference_idx /= None
        /\ session_id' = session_id
        /\ UpdateStep)
          => /\ reference_locked'
             /\ CurrentReference' = CurrentReference]_vars

\* The locked, slower first lap is still the reference after a faster lap
\* was finalized and three more samples came in.
C5_Witness ==
    /\ reference_locked
    /\ Len(completed_laps) = 2
    /\ completed_laps[1].lap_time_ms = 31200
    /\ completed_laps[2].lap_time_ms = 30500
    /\ CurrentReference = Some(completed_laps[1])
    /\ Len(current_lap_samples) = 4

\* C6: the stored reference index is absent or an index into the completed
\* laps, and reference_lap() returns nothing or one of the completed laps.
C6_ReferenceValid ==
    /\ \/ reference_idx = None
       \/ Val(reference_idx) \in 0..(Len(completed_laps) - 1)
    /\ \/ CurrentReference = None
       \/ \E i \in 1..Len(completed_laps) :
              CurrentReference = Some(completed_laps[i])

\* After a reset, a lap of the new session is the reference.
C6_Witness ==
    /\ session_id = 1
    /\ Len(completed_laps) = 1
    /\ CurrentReference = Some(completed_laps[1])

\* C7: set_reference_by_lap_num(k) returns true and selects a lap numbered k
\* when there is one, set_reference_best() returns true and selects the
\* fastest lap when a lap has a positive time, locked or not; otherwise they
\* return false and leave the reference alone.  Neither touches the lock.
C7_ManualSelection ==
    [][/\ \A k \in 1..MaxLapNum :
              DoSetReferenceByLapNum(k) =>
                  /\ reference_locked' = reference_locked
                  /\ IF \E i \in 1..Len(completed_laps) :
                            completed_laps[i].lap_num = k
                     THEN /\ SetReferenceByLapNum(Sess, k).ret = TRUE
                          /\ CurrentReference' /= None
                          /\ Val(CurrentReference').lap_num = k
                     ELSE /\ SetReferenceByLapNum(Sess, k).ret = FALSE
                          /\ reference_idx' = reference_idx
       /\ DoSetReferenceBest =>
              /\ reference_locked' = reference_locked
              /\ IF \E i \in 1..Len(completed_laps) :
                        completed_laps[i].lap_time_ms > 0
                 THEN /\ SetReferenceBest(Sess).ret = TRUE
                      /\ CurrentReference' /= None
                      /\ IsFastest(Val(CurrentReference'), completed_laps')
                 ELSE /\ SetReferenceBest(Sess).ret = FALSE
                      /\ reference_idx' = reference_idx]_vars

\* The slower second lap is the reference of a locked session: only a
\* selection by lap number can have put it there.
C7_Witness ==
    /\ reference_locked
    /\ Len(completed_laps) = 2
    /\ completed_laps[1].lap_time_ms = 30500
    /\ completed_laps[2].lap_time_ms = 31200
    /\ reference_idx = Some(1)

\* The laps a step added to the completed laps.
NewLaps ==
    IF session_id' = session_id
    THEN SubSeq(completed_laps', Len(completed_laps) + 1, Len(completed_laps'))
    ELSE completed_laps'

\* C8: a call invokes the hook, when set, once with each LapData it appended
\* to the completed laps and with nothing else: not for a dropped lap, not
\* for a buffer discarded by a reset, not again for an earlier lap.
C8_CallbackOncePerLap ==
    [][cb_calls' = (IF on_lap_finalized THEN NewLaps ELSE <<>>)]_vars

\* The hook has just been called with the second completed lap.
C8_Witness ==
    /\ on_lap_finalized
    /\ Len(completed_laps) = 2
    /\ cb_calls = <<completed_laps[2]>>

\* C9: every completed lap has at least 10 points; its samples, points and
\* cumulative distances agree in length (so do its coordinate-valid samples,
\* which is the guard of the delta and sector functions); the cumulative
\* distances start at 0 and never decrease.
C9_LapShape ==
    \A n \in 1..Len(completed_laps) :
        LET lap == completed_laps[n]
        IN /\ Len(lap.points_xz) >= 10
           /\ Len(lap.samples) = Len(lap.points_xz)
           /\ Len(lap.cum_dist_m) = Len(lap.points_xz)
           /\ ValidCount(lap.samples) = Len(lap.cum_dist_m)
           /\ lap.cum_dist_m[1] = 0
           /\ \A i \in 1..(Len(lap.cum_dist_m) - 1) :
                  lap.cum_dist_m[i] <= lap.cum_dist_m[i + 1]

\* A completed lap of 10 points along 45 m.
C9_Witness ==
    /\ completed_laps /= <<>>
    /\ Len(completed_laps[1].points_xz) = 10
    /\ completed_laps[1].cum_dist_m[10] = 45

\* C10: no package id is published twice.
C10_PublishedOncePerId ==
    \A i, j \in 1..Len(published) :
        i /= j => published[i] /= published[j]

\* The datagram decrypts to the magic and has the minimum packet size.
WellFormed(d) == d.magic_ok /\ d.size >= MinPacketSize

\* C11: in the streaming loop a well-formed datagram carrying the package id
\* of the previously accepted packet refreshes the last-receive time and
\* clears the error text, and leaves the last sample, rx_valid_packets,
\* telemetry_seq and the published samples as they were.
C11_RepeatOnlyRefreshes ==
    [][\A d \in Datagrams :
          (/\ WellFormed(d)
           /\ last_seen_package_id = Some(d.package_id)
           /\ StreamRecv(d))
          => /\ last_rx_time' > last_rx_time
             /\ last_error' = None
             /\ UNCHANGED <<last_gtdata, rx_valid_packets, telemetry_seq,
                            published, last_seen_package_id>>]_vars

\* Packets 1 and 2 were published and the third datagram, the latest to
\* set the receive time, published nothing.
C11_Witness ==
    /\ pc = "stream"
    /\ published = <<1, 2>>
    /\ last_seen_package_id = Some(2)
    /\ rx_datagrams = 3
    /\ last_rx_time = 3
    /\ rx_valid_packets = 2
    /\ telemetry_seq = 2
    /\ last_error = None

\* C12: a received datagram that is too short, or does not decrypt to the
\* magic, leaves the last sample, rx_valid_packets, telemetry_seq and the
\* last-receive time unchanged and the worker in the loop it was receiving
\* in, in the streaming loop and in discovery alike.
C12_MalformedIgnored ==
    [][\A d \in Datagrams :
          (/\ ~WellFormed(d)
           /\ StreamRecv(d) \/ DiscoverRecv(d))
          => /\ UNCHANGED <<last_gtdata, rx_valid_packets, telemetry_seq,
                            last_rx_time, published>>
             /\ pc' = pc]_vars

\* C13: a snapshot returned to the consumer describes one state of the
\* worker: its sample, telemetry_seq, rx_valid_packets and receive time
\* (read for connected and for rx_age_s) are those of the state before some
\* packet was processed or after it.
C13_SnapshotConsistent ==
    reader.pc = "returned" =>
        \E c \in committed :
            /\ reader.gtdata = c.gtdata
            /\ reader.seq = c.seq
            /\ reader.valid = c.valid
            /\ reader.connected = c.rx_time
            /\ reader.rx_age = c.rx_time

\* C14: once stop() has been called, run() eventually returns, from
\* discovery, from the streaming receive and from the head of its loop
\* alike, with no datagram needed, and its socket is closed by then.
C14_StopTerminates ==
    (~shall_run) ~> (pc = "done" /\ open_sockets = 0 /\ bound_recv_port = None)

\* run() has returned after streaming without ever receiving a datagram.
C14_Witness ==
    /\ pc = "done"
    /\ ~shall_run
    /\ open_sockets = 0
    /\ rx_datagrams = 0
    /\ tx_heartbeats = 1
    /\ discovered_ip = Some(ConsoleIp)

\* C15: once set_playstation_ip(ip) and then restart() have been called from
\* another thread, at whatever point of the worker's loop, the worker
\* eventually resets the restart flag, reads the new address and streams
\* from a socket built for it (its heartbeats go to the new address).
C15_ForcedIpTakesEffect ==
    (caller_pc = "done")
        ~> (pc = "stream" /\ cur_ip = Some(OtherIp) /\ ~shall_restart)

\* The request has been served: the worker streams from the forced address
\* with the restart flag consumed.
C15_Witness ==
    /\ caller_pc = "done"
    /\ pc = "stream"
    /\ cur_ip = Some(OtherIp)
    /\ discovered_ip = Some(OtherIp)
    /\ ~shall_restart
    /\ open_sockets = 1

\* C16: in the streaming loop the time since the last heartbeat stays below
\* one heartbeat interval plus one receive timeout, at the head of every
\* iteration and at the check of the timeout handler, whether receives time
\* out or return datagrams of any kind at any pace.
C16_HeartbeatKept ==
    pc = "stream" =>
        /\ hb_age < HbInterval + RecvTimeout
        /\ AfterHbCheck(hb_age) + RecvTimeout < HbInterval + RecvTimeout

\* The latest a heartbeat gets: due on the next check, after a datagram
\* that arrived just before the receive timed out.
C16_Witness ==
    /\ pc = "stream"
    /\ rx_datagrams = MaxDatagrams
    /\ hb_age = HbInterval + RecvTimeout - 1

\* The equal-length non-empty arguments of a finished resampling call.
ResampleCalled ==
    /\ an_call.fn \in {"_resample_by_distance", "_resample_series_by_distance"}
    /\ an_ret.kind # "none"
    /\ an_call.values # <<>>
    /\ Len(an_call.values) = Len(an_call.cumdist)

\* The first value as the call returns it.
FirstValue ==
    IF an_call.fn = "_resample_by_distance"
    THEN <<Whole(an_call.values[1][1]), Whole(an_call.values[1][2])>>
    ELSE Whole(an_call.values[1])

\* C17: given equal-length non-empty values and cumulative distances and
\* any n >= 1, both resampling functions return exactly n items when the
\* total distance is greater than zero, and n copies of the first value
\* when it is zero.
C17_ResampleReturnsN ==
    (ResampleCalled /\ an_call.n >= 1) =>
        /\ an_ret.kind = "return"
        /\ Len(an_ret.val) = an_call.n
        /\ an_call.cumdist[Len(an_call.cumdist)] = 0 =>
               an_ret.val = Copies(FirstValue, an_call.n)

\* A call of one of the six analysis functions has finished.
AnalysisCalled ==
    /\ an_call.fn \in {"delta_profile_time_ms", "delta_profile_speed",
                       "sector_times_ms", "corner_segments",
                       "corner_time_losses_ms", "corner_coaching_rows"}
    /\ an_ret.kind # "none"

\* len of the coordinate-valid samples differs from len(lap.cum_dist_m).
CountMismatch(lap) ==
    Len(ValidField(lap.samples, "t")) # Len(lap.cum_dist_m)

\* C18: for any LapData arguments and any requested n, the six analysis
\* functions return a result or an explicit no-result and never raise; the
\* delta profiles return no-result when either lap's count of
\* coordinate-valid samples differs from the length of its distance array.
C18_AnalysisNeverRaises ==
    AnalysisCalled =>
        /\ an_ret.kind = "return"
        /\ ( /\ an_call.fn \in {"delta_profile_time_ms", "delta_profile_speed"}
             /\ (CountMismatch(an_call.last) \/ CountMismatch(an_call.ref)) )
           => an_ret.val = None

\* A call of corner_segments has returned a list of segments.
CornersReturned ==
    /\ an_call.fn = "corner_segments"
    /\ an_ret.kind = "return"

\* C19: the segments corner_segments returns satisfy
\* 0 <= start_idx <= end_idx <= n - 1, and each segment ends before the next
\* one starts, for every pattern of strong and weak points and every
\* min_len and max_gap.
C19_SegmentsOrdered ==
    CornersReturned =>
        /\ \A k \in 1..Len(an_ret.val) :
               /\ 0 <= an_ret.val[k].start_idx
               /\ an_ret.val[k].start_idx <= an_ret.val[k].end_idx
               /\ an_ret.val[k].end_idx <= an_call.n - 1
        /\ \A k \in 1..(Len(an_ret.val) - 1) :
               an_ret.val[k].end_idx < an_ret.val[k + 1].start_idx

\* Every step of the polyline has the direction and length of the first:
\* the curvature is zero everywhere.
IsStraight(points) ==
    \A k \in 2..(Len(points) - 1) :
        /\ points[k + 1][1] - points[k][1] = points[2][1] - points[1][1]
        /\ points[k + 1][2] - points[k][2] = points[2][2] - points[1][2]

\* A repeated call of corner_segments returns what the call before it
\* returned, and no call changes the LapData or the session.
CornerCallPure ==
    DoCornerSegments =>
        /\ an_call.calls >= 1 => an_ret' = an_ret
        /\ an_call'.ref = an_call.ref
        /\ UNCHANGED session_vars

LossesReturned ==
    /\ an_call.fn \in {"corner_time_losses_ms", "corner_coaching_rows"}
    /\ an_ret.kind = "return"
    /\ an_ret.val # None

\* The delta-time profile and the corner segments of the call's laps.
ProfileOfCall ==
    Val(DeltaProfileTimeMs(an_call.last, an_call.ref, an_call.n).val)

CornersOfCall ==
    CornerSegments(an_call.ref, an_call.n, DefaultCurvatureThresh,
                   DefaultMinLen, DefaultMaxGap, DefaultSmoothW).val

\* C21: in the lists of corner_time_losses_ms and corner_coaching_rows
\* every corner segment of the reference lap is reported once, with a time
\* loss equal to the delta-time profile at its end_idx minus the profile at
\* its start_idx; a lap compared with itself has a loss of 0 at every
\* corner.
C21_LossIsProfileDifference ==
    LossesReturned =>
        LET rows == Val(an_ret.val)
        IN /\ Len(rows) = Len(CornersOfCall)
           /\ {rows[k].seg : k \in 1..Len(rows)} =
                  {CornersOfCall[k] : k \in 1..Len(rows)}
           /\ \A k \in 1..Len(rows) :
                  rows[k].loss_ms =
                      FracSub(ProfileOfCall[rows[k].seg.end_idx + 1],
                              ProfileOfCall[rows[k].seg.start_idx + 1])
           /\ an_call.last = an_call.ref =>
                  \A k \in 1..Len(rows) : rows[k].loss_ms = Whole(0)

C21_Witness ==
    /\ LossesReturned
    /\ an_call.fn = "corner_coaching_rows"
    /\ an_call.last = LapCornerSlow
    /\ an_call.ref = LapCorner
    /\ an_call.n = MinLapPoints
    /\ Len(Val(an_ret.val)) = 1
    /\ Val(an_ret.val)[1].seg.start_idx = 2
    /\ Val(an_ret.val)[1].seg.end_idx = 8
    /\ Val(an_ret.val)[1].loss_ms = Whole(6000)

\* C22: the lists of corner_coaching_rows and corner_time_losses_ms are in
\* order of non-increasing time loss, and entries of equal loss are in
\* ascending order of start_idx.
C22_SortedByLoss ==
    LossesReturned =>
        LET rows == Val(an_ret.val)
        IN \A k \in 1..(Len(rows) - 1) :
               /\ FracLe(rows[k + 1].loss_ms, rows[k].loss_ms)
               /\ rows[k + 1].loss_ms = rows[k].loss_ms =>
                      rows[k].seg.start_idx < rows[k + 1].seg.start_idx

C22_Witness ==
    /\ LossesReturned
    /\ an_call.fn = "corner_time_losses_ms"
    /\ an_call.last = LapTwoCornersSlow
    /\ an_call.ref = LapTwoCorners
    /\ Len(Val(an_ret.val)) = 2
    /\ Val(an_ret.val)[1].seg.start_idx = 12
    /\ Val(an_ret.val)[1].loss_ms = Whole(3000)
    /\ Val(an_ret.val)[2].seg.start_idx = 2
    /\ Val(an_ret.val)[2].loss_ms = Whole(2500)

\* The strong points of the call, as corner_segments computes them, as a
\* set of indices into the n-point axis.
StrongOfCall ==
    LET pts == ResampleByDistance(an_call.ref.points_xz,
                                  an_call.ref.cum_dist_m, an_call.n).val
        curv_s == MovingAverage(Curv(Headings(pts), an_call.n),
                                an_call.par.smooth_w)
        strong == Strong(curv_s, an_call.par.curvature_thresh)
    IN {i \in 0..(an_call.n - 1) : strong[i + 1]}

\* The merged runs of a set of strong points: a run starts at a strong
\* point with no strong point among the max_gap + 1 indices before it and
\* ends at the next strong point with none among the max_gap + 1 after it.
RunFirsts(S, max_gap) ==
    {f \in S : \A i \in S : ~(f - max_gap - 1 <= i /\ i < f)}

RunLasts(S, max_gap) ==
    {l \in S : \A i \in S : ~(l < i /\ i <= l + max_gap + 1)}

MergedRuns(S, max_gap) ==
    {<<f, CHOOSE l \in RunLasts(S, max_gap) :
              l >= f /\ \A m \in RunLasts(S, max_gap) : m >= f => l <= m>> :
        f \in RunFirsts(S, max_gap)}

\* A call of corner_segments that went through the scan has returned.
ScanReturned ==
    /\ CornersReturned
    /\ Len(an_call.ref.points_xz) >= MinLapPoints
    /\ an_call.n >= MinLapPoints

\* C23: corner_segments emits exactly the merged runs of strong points
\* whose length from first to last strong point, both inclusive, is at
\* least min_len, each with start_idx at its first and end_idx at its last
\* strong point, whether the run is ended by a long gap or by the end of
\* the axis.
C23_RunsEmitted ==
    ScanReturned =>
        {<<an_ret.val[k].start_idx, an_ret.val[k].end_idx>> :
            k \in 1..Len(an_ret.val)}
        = {r \in MergedRuns(StrongOfCall, an_call.par.max_gap) :
              r[2] - r[1] + 1 >= an_call.par.min_len}

\* C24: on every change of lap number, a decrease included, the buffer is
\* emptied and the tracked lap number becomes the new one before the
\* triggering sample is considered: a lap finalized by the call holds the
\* samples buffered before it, none of them the triggering sample, and the
\* buffer afterwards is empty or holds the triggering sample alone.
C24_ChangeClearsBeforeAdmission ==
    [][\A snap \in AllSnapshots :
          (/\ last_lap_num /= None
           /\ Some(snap.lap) /= last_lap_num
           /\ Ingests(snap))
          => /\ last_lap_num' = Some(snap.lap)
             /\ current_lap_samples' \in {<<>>, <<Sample(snap)>>}
             /\ LapFinalized =>
                    /\ NewestLap(completed_laps').samples = current_lap_samples
                    /\ \A i \in 1..Len(current_lap_samples) :
                           current_lap_samples[i].lap /= snap.lap
             /\ ~LapFinalized => completed_laps' \in {completed_laps, <<>>}]_vars

\* Lap 2 was kept when the lap number went down to 1, and the sample that
\* showed lap 1 is alone in the buffer.
C24_Witness ==
    /\ Len(completed_laps) = 1
    /\ completed_laps[1].lap_num = 2
    /\ Len(completed_laps[1].samples) = MinLapPoints
    /\ last_lap_num = Some(1)
    /\ Len(current_lap_samples) = 1
    /\ current_lap_samples[1].lap = 1

\* The call resets the session (session_id is raised only by _reset_session).
ResetsSession == session_id' = session_id + 1

\* C25: the first sample after construction, and the first sample after a
\* session reset (the sample whose time on track triggered it), sets the
\* tracked lap number to its own lap number, finalizes no lap and does not
\* invoke the callback.
C25_FirstSampleAdopts ==
    [][\A snap \in AllSnapshots :
          (Ingests(snap) /\ (last_lap_num = None \/ ResetsSession))
          => /\ last_lap_num' = Some(snap.lap)
             /\ completed_laps' = <<>>
             /\ cb_calls' = <<>>]_vars

\* A session at lap 1 with a full buffer was reset by a sample of lap 2,
\* which is now the only buffered sample.
C25_Witness ==
    /\ session_id = 1
    /\ last_lap_num = Some(2)
    /\ completed_laps = <<>>
    /\ cb_calls = <<>>
    /\ Len(current_lap_samples) = 1
    /\ current_lap_samples[1].lap = 2

\* The step is update_from_snapshot(snap) for a car that may stand still.
IngestsFreeze(snap) ==
    /\ last_pos' = Some(<<snap.x, snap.z>>)
    /\ last_lap_num' = Some(snap.lap)
    /\ last_time_on_track_s' = snap.time_on_track_s
    /\ DoFreezeUpdate(snap)

\* The buffer the sample is considered for: emptied by a reset or a change
\* of lap number in the same call.
BufferBefore(snap) ==
    IF ResetsSession \/ (last_lap_num /= None /\ Some(snap.lap) /= last_lap_num)
    THEN <<>> ELSE current_lap_samples

\* The call appended its sample to the buffer.
Admitted(snap) ==
    current_lap_samples' = Append(BufferBefore(snap), Sample(snap))

\* The sample shows movement: it is the first after construction or reset,
\* or its position is at least 0.01 squared distance from the previous
\* sample's, or throttle or brake is at least 0.5, or speed at least 1 km/h.
ShowsMovement(snap) ==
    \/ last_pos = None
    \/ ResetsSession
    \/ LET dx == snap.x - Val(last_pos)[1]
           dz == snap.z - Val(last_pos)[2]
       IN 100 * (dx * dx + dz * dz) >= 1
    \/ 2 * snap.throttle >= 1
    \/ 2 * snap.brake >= 1
    \/ snap.speed_kmh >= 1

\* Tenths of a second from the most recent sample that showed movement to
\* this sample; the session keeps the time of that sample in last_moving_t.
SinceMovement(snap) ==
    IF ShowsMovement(snap) THEN 0 ELSE snap.dt - Val(last_moving_t)

\* The freeze heuristic of the claims: more than 0.7 s without movement.
Frozen(snap) == SinceMovement(snap) > FreezeAfter

\* No kept sample, buffered or in a completed lap, has the paused flag or
\* the all-zero position.
KeptSampleOk(sample) == ~sample.paused /\ (sample.x /= 0 \/ sample.z /= 0)

NoPausedOrZeroKept ==
    /\ \A i \in 1..Len(current_lap_samples) : KeptSampleOk(current_lap_samples[i])
    /\ \A k \in 1..Len(completed_laps) :
           \A i \in 1..Len(completed_laps[k].samples) :
               KeptSampleOk(completed_laps[k].samples[i])

\* C26: a sample is appended to the buffer exactly when its position is
\* not all-zero, it is not effectively paused (paused flag or freeze
\* heuristic) and, in a race, it is not protocol-paused; no sample with the
\* paused flag or the all-zero position is ever buffered or in a completed
\* lap, in a race or not.
C26_AdmissionRule ==
    /\ []NoPausedOrZeroKept
    /\ [][\A snap \in FreezeSnaps :
            IngestsFreeze(snap) =>
                /\ Admitted(snap) <=>
                       /\ CoordsOk(snap.x, snap.z)
                       /\ ~(snap.paused \/ Frozen(snap))
                       /\ snap.in_race => ~snap.paused
                /\ ~Admitted(snap) => current_lap_samples' = BufferBefore(snap)]_vars

\* A lap of ten samples was kept and the buffer holds a sample taken out of
\* a race; the car has since been refused as frozen.
C26_Witness ==
    /\ Len(completed_laps) = 1
    /\ Len(current_lap_samples) = 2
    /\ last_moving_t = Some(0 - (FreezeAfter + 1))

\* C27: the freeze heuristic pauses a sample exactly when more than 0.7 s
\* have passed since the most recent sample that showed movement, the first
\* sample after construction or reset counting as one: the session records
\* that time at every sample, a sample with valid position and no paused
\* flag is admitted exactly when it is not frozen, a sample that shows
\* movement is never frozen, and the first moving sample after a freeze is
\* admitted again.
C27_FreezeHeuristic ==
    [][\A snap \in FreezeSnaps :
          IngestsFreeze(snap) =>
              /\ last_moving_t' =
                     Some(0 - Min(SinceMovement(snap), FreezeAfter + 1))
              /\ (CoordsOk(snap.x, snap.z) /\ ~snap.paused) =>
                     (Admitted(snap) <=> SinceMovement(snap) <= FreezeAfter)
              /\ ShowsMovement(snap) => ~Frozen(snap)
              /\ (/\ last_moving_t = Some(0 - (FreezeAfter + 1))
                  /\ ShowsMovement(snap)
                  /\ CoordsOk(snap.x, snap.z) /\ ~snap.paused)
                 => Admitted(snap)]_vars

\* The car has stood for more than 0.7 s at the start line with samples in
\* the buffer.
C27_Witness ==
    /\ last_moving_t = Some(0 - (FreezeAfter + 1))
    /\ last_pos = Some(PosA)
    /\ Len(current_lap_samples) = 3

\* A call of _first_threshold_crossing has returned.
CrossingReturned ==
    an_call.fn = "_first_threshold_crossing" /\ an_ret.kind = "return"

\* Bin j of the call's series exists and is at or above the threshold.
BinHigh(j) ==
    /\ 0 <= j /\ j < Len(an_call.xs)
    /\ FracLe(Whole(an_call.thr), an_call.xs[j + 1])

\* The indices of the call's window, each end clamped to the series, from
\* which hold consecutive bins exist and are at or above the threshold.
Onsets ==
    LET n == Len(an_call.xs)
        lo == IF an_call.i0 < 0 THEN 0
              ELSE IF an_call.i0 > n - 1 THEN n - 1 ELSE an_call.i0
        hi == IF an_call.i1 < 0 THEN 0
              ELSE IF an_call.i1 > n - 1 THEN n - 1 ELSE an_call.i1
    IN {i \in lo..hi :
           n > 0 /\ \A k \in 0..(an_call.hold - 1) : BinHigh(i + k)}

\* C28: _first_threshold_crossing returns the smallest index of the clamped
\* window from which hold consecutive bins exist and are at or above thr,
\* and None when there is none or the window is empty; with hold > 1 a bin
\* at or above the threshold followed by a bin below it is never returned.
C28_FirstHeldCrossing ==
    CrossingReturned =>
        /\ an_ret.val =
               (IF Onsets = {} THEN None
                ELSE Some(CHOOSE i \in Onsets : \A m \in Onsets : i <= m))
        /\ (an_call.hold > 1 /\ an_ret.val /= None) =>
               BinHigh(Val(an_ret.val) + 1)

\* A single high bin at index 0 is passed over with hold = 2 and the onset
\* is found at index 2, where two high bins follow each other.
C28_Witness ==
    /\ CrossingReturned
    /\ an_call.xs = <<Frac(3, 2), Whole(0), Whole(1), Frac(3, 2)>>
    /\ an_call.i0 = 0 /\ an_call.i1 = 3
    /\ an_call.hold = 2
    /\ an_ret.val = Some(2)

\* C29: with no fixed peer configured, the worker leaves discovery for the
\* streaming socket, and sets discovered_ip, only in the step that receives
\* a datagram decrypting to the magic, and the resolved address is that
\* datagram's sender; an undecodable datagram and a receive timeout leave
\* the worker in discovery with nothing resolved, and after a discovery
\* that ended without a peer the worker's loop goes to discovery again.
C29_DiscoveryResolves ==
    [][playstation_ip = Auto =>
          /\ (pc = "read_ip" /\ pc' /= pc) =>
                 (pc' = "discover" /\ discovered_ip' = discovered_ip)
          /\ (pc = "discover" /\ (pc' \in {"bind", "stream"}
                                   \/ discovered_ip' /= discovered_ip)) =>
                 \E d \in PeerDatagrams :
                     /\ d.magic_ok
                     /\ DiscoverFound(d)
                     /\ discovered_ip' = Some(d.addr)
                     /\ cur_ip' = Some(d.addr)
          /\ \A d \in PeerDatagrams :
                 (DiscoverFound(d) /\ ~d.magic_ok) =>
                     /\ pc' = "discover"
                     /\ UNCHANGED <<discovered_ip, cur_ip, rx_valid_packets>>
          /\ DiscoverTimeout =>
                 (pc' = "discover" /\ UNCHANGED <<discovered_ip, cur_ip>>)
          /\ (pc = "discover" /\ pc' = "loop") =>
                 UNCHANGED <<discovered_ip, cur_ip>>
          /\ (pc = "loop" /\ pc' /= pc /\ shall_run) => pc' = "reset"
          /\ (pc = "reset" /\ pc' /= pc) => pc' = "read_ip"]_vars

\* After one undecodable datagram, a decodable one from the other sender
\* resolved the peer and the worker streams from it.
C29_Witness ==
    /\ playstation_ip = Auto
    /\ pc = "stream"
    /\ discovered_ip = Some(OtherIp)
    /\ cur_ip = Some(OtherIp)
    /\ rx_datagrams = 2
    /\ rx_valid_packets = 1

\* C30: the worker holds at most one open socket at any time, none outside
\* discovery and streaming; a socket error in bind or receive, a restart, a
\* stop and the end of discovery close the socket and take the worker back
\* to the head of its loop, which ends run() only after stop().
C30_OneSocketNeverFatal ==
    /\ [](open_sockets = (IF pc \in {"discover", "stream"} THEN 1 ELSE 0))
    /\ [](pc = "done" => ~shall_run)
    /\ [][/\ (pc \in {"discover", "stream"} /\ pc' /= pc) =>
              (open_sockets' = 0 /\ pc' \in {"loop", "bind"})
          /\ (pc = "bind" /\ pc' /= "stream" /\ pc' /= pc) =>
              (pc' = "loop" /\ open_sockets' = 0 /\ last_error' /= None)
          /\ (pc = "loop" /\ pc' /= pc /\ shall_run) => pc' = "reset"]_vars

\* The bind of the streaming socket failed after a successful discovery:
\* no socket is open and the worker is back at the head of its loop.
C30_Witness ==
    /\ pc = "loop"
    /\ shall_run
    /\ open_sockets = 0
    /\ last_error = Some("Connection loop error")
    /\ discovered_ip = Some(ConsoleIp)
    /\ playstation_ip = Auto

\* The fields of the transport that snapshot() reads and run() writes: the
\* last sample, the counters, the error text, the bound port, the last
\* sender and the resolved peer address.
SnapshotFields ==
    <<last_gtdata, telemetry_seq, last_rx_time, last_error, bound_recv_port,
      rx_datagrams, rx_valid_packets, tx_heartbeats, last_sender_ip,
      discovered_ip>>

\* The step is a call made from another thread.
CallerStep ==
    \/ Stop
    \/ Restart
    \/ \E ip \in {"", ConsoleIp} : SetPlaystationIp(ip)

\* C31: every field snapshot() reads is written by the worker only: stop,
\* restart and set_playstation_ip write request flags and the configured
\* target and leave those fields as they are.
C31_WorkerIsOnlyWriter ==
    [][CallerStep => UNCHANGED SnapshotFields]_vars

\* The events of one kind in a list of events.
EventsOf(kind, evs) == SelectSeq(evs, LAMBDA ev : ev.kind = kind)

\* C38: consume emits a fuel warning exactly when the bucket observed with
\* positive fuel capacity is lower than the bucket observed at the previous
\* such call (none at the first observation, none when the bucket is the
\* same or higher), at most one per call and naming the new bucket; the
\* engine remembers the bucket of every such call, so a drop after a rise
\* warns again.
C38_FuelWarningOnDrop ==
    [][LET state == race_state'
           observed == state.fuel_capacity > 0
           bucket == FuelBucket(state.fuel_pct)
           warnings == EventsOf("fuel", events')
       IN /\ Len(warnings) <= 1
          /\ warnings /= <<>> <=>
                 (observed /\ prev_bucket /= None /\ bucket < Val(prev_bucket))
          /\ warnings /= <<>> => warnings[1].bucket = bucket
          /\ prev_bucket' = (IF observed THEN Some(bucket) ELSE prev_bucket)
      ]_vars

\* The fuel fell into the 10 percent bucket: one warning, naming bucket 10,
\* and the engine remembers that bucket.
C38_Witness ==
    /\ race_state.fuel_capacity > 0
    /\ race_state.fuel_pct = Whole(10)
    /\ prev_bucket = Some(10)
    /\ EventsOf("fuel", events) = <<FuelEvent(10)>>

\* C39: consume emits a lap-complete event only when the state is
\* connected, lap > 0 and last_lap_ms is a positive lap time that differs
\* from the one recorded at the previous call made while connected with
\* lap > 0; at most one per call.
C39_LapCompleteOnNewTime ==
    [][LET state == race_state'
           laps == EventsOf("lap", events')
       IN /\ Len(laps) <= 1
          /\ laps /= <<>> =>
                 /\ state.connected
                 /\ state.lap > 0
                 /\ state.last_lap_ms > 0
                 /\ state.last_lap_ms /= prev_last_lap_ms
          /\ prev_last_lap_ms' =
                 (IF state.connected /\ state.lap > 0
                  THEN state.last_lap_ms ELSE prev_last_lap_ms)
      ]_vars

\* C34: between operations of a session, reference_lap() returns a lap exactly
\* when completed_laps() is not empty, and the lap returned is one of the
\* completed laps; this holds after any sequence of snapshots, lock, select
\* by number and select best calls, session resets included.
C34_ReferenceIffLaps ==
    /\ (CurrentReference /= None) <=> (completed_laps /= <<>>)
    /\ CurrentReference /= None =>
           \E i \in 1..Len(completed_laps) :
               CurrentReference = Some(completed_laps[i])

\* A session that was reset, completed a lap afterwards while the lock was
\* set, and has that lap as its reference.
C34_Witness ==
    /\ session_id > 0
    /\ reference_locked
    /\ completed_laps /= <<>>
    /\ CurrentReference = Some(completed_laps[1])

\* C36: when the lock is set while no lap is completed, the first lap
\* finalized becomes the reference although the lock is set; every lap
\* finalized after that under the lock, a faster one included, leaves
\* reference_lap() as it was; finalizing a lap never releases the lock.
C36_LockBeforeFirstLap ==
    [][(LapFinalized /\ reference_locked)
          => /\ reference_locked'
             /\ completed_laps = <<>>
                    => CurrentReference' = Some(completed_laps'[1])
             /\ completed_laps /= <<>>
                    => /\ CurrentReference /= None
                       /\ CurrentReference' = CurrentReference]_vars

\* The hook has just received the first lap of a session whose lock is set:
\* only update_from_snapshot calls the hook and it never sets the lock, so the
\* lock was set while no lap was completed; that lap is the reference.
C36_Witness ==
    /\ reference_locked
    /\ Len(completed_laps) = 1
    /\ cb_calls = <<completed_laps[1]>>
    /\ reference_idx = Some(0)
    /\ CurrentReference = Some(completed_laps[1])

\* C35: an update_from_snapshot call that resets the session drops every
\* buffered sample without finalizing: no lap is completed and the hook is
\* not called, whatever the length of the buffer and whether or not the
\* snapshot carries another lap number; the snapshot is then handled as the
\* first of the new session: its lap number is adopted and the buffer holds
\* nothing, or that sample alone.
C35_ResetDiscardsBuffer ==
    [][\A snap \in AllSnapshots :
          (Ingests(snap) /\ ResetsSession)
          => /\ completed_laps' = <<>>
             /\ cb_calls' = <<>>
             /\ reference_idx' = None
             /\ last_lap_num' = Some(snap.lap)
             /\ current_lap_samples' \in {<<>>, <<Sample(snap)>>}]_vars

\* A session with the hook set was reset by a snapshot of lap 2 whose time
\* on track is 0 s; that sample is the whole buffer and the hook was not
\* called.
C35_Witness ==
    /\ session_id = 1
    /\ on_lap_finalized
    /\ last_time_on_track_s = Some(0)
    /\ completed_laps = <<>>
    /\ cb_calls = <<>>
    /\ current_lap_samples = <<[lap |-> 2, x |-> PosA[1], z |-> PosA[2], paused |-> FALSE]>>

\* C32: every telemetry_seq is passed to update_from_snapshot at most once,
\* so the session never holds more samples than distinct published samples
\* were taken by the ticks, and no two samples of the buffer stem from the
\* same packet.
C32_OneSamplePerPacket ==
    /\ \A i, j \in 1..Len(fed) : fed[i] = fed[j] => i = j
    /\ Len(current_lap_samples) <= Cardinality({fed[i] : i \in 1..Len(fed)})

\* The step is _on_apply_settings and it replaced the session.
SessionReplaced == samples_maxlen' /= samples_maxlen

\* C33: when apply-settings replaces the session, the new session has the
\* lock state and the reference_info lap number of the session it replaces,
\* and it is built with that session's hook (which the research setting
\* then arms or disarms).
C33_RebuildKeepsReference ==
    [][SessionReplaced
          => /\ reference_locked' = reference_locked
             /\ ReferenceInfoLapNum(Sess)' = ReferenceInfoLapNum(Sess)
             /\ RebuildSession(Sess).on_lap_finalized = on_lap_finalized
      ]_vars

\* The session after update_from_snapshot(snap) had the hook returned
\* normally.
AfterReturningHook(snap) ==
    UpdateFromSnapshot(AtCall([Sess EXCEPT !.hook_raises = FALSE]), snap)

\* C37: when the hook raises, update_from_snapshot does not raise and leaves
\* the session as a returning hook would: the lap is among the completed
\* laps, a reference is selected, the buffer holds nothing but possibly the
\* sample that changed the lap number, and that lap number is adopted.  The
\* hook is passed the newest completed lap and finds it appended and the
\* reference index already at the value the call leaves.
C37_HookExceptionSwallowed ==
    /\ [](~raised)
    /\ [][\A snap \in AllSnapshots :
          Ingests(snap)
          => /\ [Sess' EXCEPT !.hook_raises = FALSE] = AfterReturningHook(snap)
             /\ LapFinalized
                    => /\ cb_calls' = <<NewestLap(completed_laps')>>
                       /\ cb_seen' = Some([completed |-> Len(completed_laps'),
                                           reference_idx |-> reference_idx'])
                       /\ reference_idx' /= None
                       /\ CurrentReference' /= None
                       /\ last_lap_num' = Some(snap.lap)
                       /\ current_lap_samples' \in {<<>>, <<Sample(snap)>>}
             /\ ~LapFinalized => cb_calls' = <<>> /\ cb_seen' = None]_vars

\* A raising hook was just passed the first lap: the lap is completed and
\* is the reference, lap number 2 is adopted and its first sample buffered.
C37_Witness ==
    /\ hook_raises
    /\ ~raised
    /\ Len(completed_laps) = 1
    /\ cb_calls = <<completed_laps[1]>>
    /\ cb_seen = Some([completed |-> 1, reference_idx |-> Some(0)])
    /\ reference_idx = Some(0)
    /\ last_lap_num = Some(2)
    /\ Len(current_lap_samples) = 1
    /\ current_lap_samples[1].lap = 2

====
